---- MODULE Spec2Model ----
(***************************************************************************)
(* PeerConnection (peerconnection.go): the signaling state machine, the    *)
(* description slots, the last-offer/last-answer check, the description    *)
(* getters and Close.                                                      *)
(***************************************************************************)
EXTENDS Integers, Sequences, FiniteSets, TLC

VARIABLES
    pc,             \* the PeerConnection struct (fields named as in the source)
    agentIsTrickle, \* pc.iceGatherer.agentIsTrickle, fixed at construction
    last,           \* the last state-changing API call and what it returned
    got,            \* the result of the getter called since that API call
    returned,       \* the texts the latest successful CreateOffer/CreateAnswer returned
    calls,          \* number of API calls made so far
    crashed,        \* a nil dereference has ended the program
    remoteMedia,    \* the m-sections that the remote peer's descriptions parse to
    tasks,          \* the goroutines SetRemoteDescription has started, oldest first
    plucked,        \* the latest call of satisfyTypeAndDirection and what it returned
    threads,        \* the tasks running code that takes pc.mu, calls out or dispatches
    racing,         \* the set-description calls that run at the same time
    srtp            \* the latest run of openSRTP: the SSRCs it collected and the
                    \* receivers it started

vars == <<pc, agentIsTrickle, last, got, returned, calls, crashed, remoteMedia, tasks,
          plucked, threads, racing, srtp>>

\* The variables that the API calls of one caller leave alone.
asides == <<plucked, threads, racing, srtp>>

\* ---------------------------------------------------------------- bounds
MaxCalls == 4          \* API calls per behaviour
MaxTransceivers == 1   \* transceivers added per connection
MaxParsed == 1         \* candidate batches appended to one parsed description
sctpMaxChannels == 5   \* stream ids a connection has (65535 in the program)
MaxSections == 2       \* m-sections of a remote description
MaxDataChannels == 2   \* data channels registered by one connection
MaxCandidates == 3     \* transceivers handed to satisfyTypeAndDirection
MaxThreads == 2        \* operations and transport callbacks started on one connection
MaxSSRC == 2           \* SSRCs, and a=ssrc lines per m-section, of a remote description

\* ---------------------------------------------------------------- values
Stable == "stable"
HaveLocalOffer == "have-local-offer"
HaveRemoteOffer == "have-remote-offer"
HaveLocalPranswer == "have-local-pranswer"
HaveRemotePranswer == "have-remote-pranswer"
Closed == "closed"

SignalingStates ==
    {Stable, HaveLocalOffer, HaveRemoteOffer, HaveLocalPranswer, HaveRemotePranswer, Closed}

\* The four SDP types and the zero value of SDPType.
SDPTypes == {"offer", "pranswer", "answer", "rollback", "unknown"}

stateChangeOps == {"setLocal", "setRemote"}

RTPCodecTypes == {"audio", "video"}

\* SDP texts: two texts that parse, the empty text, and one that does not parse.
Texts == {"s1", "s2"}
BadText == "bad"
AllTexts == Texts \cup {"", BadText}

\* Error values returned by the API.
ErrConnectionClosed == "InvalidStateError{ConnectionClosed}"
ErrNoRemoteDescription == "InvalidStateError{NoRemoteDescription}"

\* A nil *SessionDescription.
Nil == [Type |-> "nil", SDP |-> "", parsed |-> 0]

\* SessionDescription{Type, SDP, parsed}; parsed counts the candidate batches
\* that have been appended to the parsed tree since it was unmarshalled.
NewDesc(t, text) == [Type |-> t, SDP |-> text, parsed |-> 0]

\* sdp.SessionDescription.Unmarshal: an SDP text has to start with a v= line.
Unmarshal(text) == text \in Texts

\* ------------------------------------------------- signaling state machine
\* The permitted transitions (cur, op, type, next).
checkNextSignalingState(cur, next, op, sdpType) ==
    LET ok ==
          \/ sdpType = "rollback" /\ cur # Closed /\ next = Stable
          \/ cur = Stable /\ op = "setLocal" /\ sdpType = "offer" /\ next = HaveLocalOffer
          \/ cur = HaveLocalOffer /\ op = "setLocal" /\ sdpType = "offer" /\ next = HaveLocalOffer
          \/ cur = HaveRemoteOffer /\ op = "setLocal" /\ sdpType = "answer" /\ next = Stable
          \/ cur = HaveRemoteOffer /\ op = "setLocal" /\ sdpType = "pranswer" /\ next = HaveLocalPranswer
          \/ cur = HaveLocalPranswer /\ op = "setLocal" /\ sdpType = "answer" /\ next = Stable
          \/ cur = Stable /\ op = "setRemote" /\ sdpType = "offer" /\ next = HaveRemoteOffer
          \/ cur = HaveLocalOffer /\ op = "setRemote" /\ sdpType = "answer" /\ next = Stable
          \/ cur = HaveLocalOffer /\ op = "setRemote" /\ sdpType = "pranswer" /\ next = HaveRemotePranswer
          \/ cur = HaveRemotePranswer /\ op = "setRemote" /\ sdpType = "answer" /\ next = Stable
    IN  IF ok THEN [state |-> next, err |-> "nil"]
              ELSE [state |-> cur, err |-> "InvalidModificationError"]

\* onSignalingStateChange: one more handler task is dispatched, with the new state.
onSignalingStateChange(p, newState) ==
    [p EXCEPT !.signalingDispatches = @ + 1, !.lastSignalingEvent = newState]

\* finishSetDescription that dispatches the callback but does not store the state.
finishSetDescription_NoStore(p, chk) ==
    IF chk.err = "nil"
    THEN [pc |-> onSignalingStateChange(p, chk.state), err |-> "nil"]
    ELSE [pc |-> p, err |-> chk.err]

\* finishSetDescription that dispatches the callback whatever the check said.
finishSetDescription_DispatchAlways(p, chk) ==
    IF chk.err = "nil"
    THEN [pc |-> onSignalingStateChange([p EXCEPT !.signalingState = chk.state], chk.state),
          err |-> "nil"]
    ELSE [pc |-> onSignalingStateChange(p, chk.state), err |-> chk.err]

\* The tail of setDescription: on success store the state and dispatch.
finishSetDescription(p, chk) ==
    IF chk.err = "nil"
    THEN [pc |-> onSignalingStateChange([p EXCEPT !.signalingState = chk.state], chk.state),
          err |-> "nil"]
    ELSE [pc |-> p, err |-> chk.err]

\* A comparison that accepts every text.
sdpDoesNotMatch_Never(text, lastCreated) == FALSE

\* The last-offer/last-answer comparison of setLocal.
sdpDoesNotMatch(text, lastCreated) == text # lastCreated

\* What each branch of setDescription stores once the transition is permitted.
installLocalOffer(p, sd) == [p EXCEPT !.pendingLocalDescription = sd]

\* installLocalAnswer that drops the pending remote description instead of
\* promoting it.
installLocalAnswer_NoPromote(p, sd) ==
    [p EXCEPT !.currentLocalDescription = sd,
              !.pendingRemoteDescription = Nil,
              !.pendingLocalDescription = Nil]

installLocalAnswer(p, sd) ==
    [p EXCEPT !.currentLocalDescription = sd,
              !.currentRemoteDescription = p.pendingRemoteDescription,
              !.pendingRemoteDescription = Nil,
              !.pendingLocalDescription = Nil]

installLocalRollback(p) == [p EXCEPT !.pendingLocalDescription = Nil]

installLocalPranswer(p, sd) == [p EXCEPT !.pendingLocalDescription = sd]

installRemoteOffer(p, sd) == [p EXCEPT !.pendingRemoteDescription = sd]

installRemoteAnswer(p, sd) ==
    [p EXCEPT !.currentRemoteDescription = sd,
              !.currentLocalDescription = p.pendingLocalDescription,
              !.pendingRemoteDescription = Nil,
              !.pendingLocalDescription = Nil]

installRemoteRollback(p) == [p EXCEPT !.pendingRemoteDescription = Nil]

installRemotePranswer(p, sd) == [p EXCEPT !.pendingRemoteDescription = sd]

setLocalBranch(p, sd) ==
    LET cur == p.signalingState IN
    CASE sd.Type = "offer" ->
           IF sdpDoesNotMatch(sd.SDP, p.lastOffer)
           THEN [pc |-> p, err |-> "InvalidModificationError"]
           ELSE LET chk == checkNextSignalingState(cur, HaveLocalOffer, "setLocal", sd.Type)
                IN finishSetDescription(IF chk.err = "nil" THEN installLocalOffer(p, sd) ELSE p, chk)
      [] sd.Type = "answer" ->
           IF sdpDoesNotMatch(sd.SDP, p.lastAnswer)
           THEN [pc |-> p, err |-> "InvalidModificationError"]
           ELSE LET chk == checkNextSignalingState(cur, Stable, "setLocal", sd.Type)
                IN finishSetDescription(IF chk.err = "nil" THEN installLocalAnswer(p, sd) ELSE p, chk)
      [] sd.Type = "rollback" ->
           LET chk == checkNextSignalingState(cur, Stable, "setLocal", sd.Type)
           IN finishSetDescription(IF chk.err = "nil" THEN installLocalRollback(p) ELSE p, chk)
      [] sd.Type = "pranswer" ->
           IF sdpDoesNotMatch(sd.SDP, p.lastAnswer)
           THEN [pc |-> p, err |-> "InvalidModificationError"]
           ELSE LET chk == checkNextSignalingState(cur, HaveLocalPranswer, "setLocal", sd.Type)
                IN finishSetDescription(IF chk.err = "nil" THEN installLocalPranswer(p, sd) ELSE p, chk)
      [] OTHER -> [pc |-> p, err |-> "OperationError"]

setRemoteBranch(p, sd) ==
    LET cur == p.signalingState IN
    CASE sd.Type = "offer" ->
           LET chk == checkNextSignalingState(cur, HaveRemoteOffer, "setRemote", sd.Type)
           IN finishSetDescription(IF chk.err = "nil" THEN installRemoteOffer(p, sd) ELSE p, chk)
      [] sd.Type = "answer" ->
           LET chk == checkNextSignalingState(cur, Stable, "setRemote", sd.Type)
           IN finishSetDescription(IF chk.err = "nil" THEN installRemoteAnswer(p, sd) ELSE p, chk)
      [] sd.Type = "rollback" ->
           LET chk == checkNextSignalingState(cur, Stable, "setRemote", sd.Type)
           IN finishSetDescription(IF chk.err = "nil" THEN installRemoteRollback(p) ELSE p, chk)
      [] sd.Type = "pranswer" ->
           LET chk == checkNextSignalingState(cur, HaveRemotePranswer, "setRemote", sd.Type)
           IN finishSetDescription(IF chk.err = "nil" THEN installRemotePranswer(p, sd) ELSE p, chk)
      [] OTHER -> [pc |-> p, err |-> "OperationError"]

\* 4.4.1.6 Set the SessionDescription
setDescription(p, sd, op) ==
    IF p.isClosed THEN [pc |-> p, err |-> ErrConnectionClosed]
    ELSE CASE op = "setLocal" -> setLocalBranch(p, sd)
           [] op = "setRemote" -> setRemoteBranch(p, sd)
           [] OTHER -> [pc |-> p, err |-> "OperationError"]

\* ------------------------------------------------------------ public API
\* A substitution that takes the last offer for every type.
substituteLastCreated_AlwaysOffer(p, desc) ==
    IF desc.SDP # "" THEN desc.SDP
    ELSE IF desc.Type \in {"answer", "pranswer", "offer"} THEN p.lastOffer
    ELSE "none"

\* JSEP 5.4: the text an empty SDP stands for ("none": no text for this type).
substituteLastCreated(p, desc) ==
    IF desc.SDP # "" THEN desc.SDP
    ELSE IF desc.Type \in {"answer", "pranswer"} THEN p.lastAnswer
    ELSE IF desc.Type = "offer" THEN p.lastOffer
    ELSE "none"

\* SetLocalDescription; env.gatherErr: SignalCandidates/Gather reports an error.
SetLocalDescription(p, desc, trickle, env) ==
    LET text == substituteLastCreated(p, desc) IN
    IF p.isClosed THEN [pc |-> p, err |-> ErrConnectionClosed, sdErr |-> "none"]
    ELSE IF desc.SDP = "" /\ text = "none"
    THEN [pc |-> p, err |-> "InvalidModificationError", sdErr |-> "none"]
    ELSE IF ~Unmarshal(text)
    THEN [pc |-> p, err |-> "ParseError", sdErr |-> "none"]
    ELSE LET r == setDescription(p, NewDesc(desc.Type, text), "setLocal") IN
         IF r.err # "nil"
         THEN [pc |-> r.pc, err |-> r.err, sdErr |-> r.err]
         ELSE IF ~trickle
         THEN [pc |-> r.pc, err |-> IF env.gatherErr THEN "GatherError" ELSE "nil",
               sdErr |-> "nil"]
         ELSE IF desc.Type = "answer"
         THEN [pc |-> r.pc, err |-> IF env.gatherErr THEN "GatherError" ELSE "nil",
               sdErr |-> "nil"]
         ELSE [pc |-> r.pc, err |-> "nil", sdErr |-> "nil"]

\* RemoteDescription: the pending remote description if set, else the current.
RemoteDescription(p) ==
    IF p.pendingRemoteDescription # Nil THEN p.pendingRemoteDescription
    ELSE p.currentRemoteDescription

\* What the content of a remote description makes SetRemoteDescription do
\* after the description is installed.
RemoteContents == {"ok", "candidateError", "noFingerprint", "invalidFingerprint"}

\* SetRemoteDescription; env.remote: the content of the parsed description,
\* env.gatherErr: Gather reports an error.
SetRemoteDescription(p, desc, trickle, env) ==
    IF p.currentRemoteDescription # Nil
    THEN [pc |-> p, err |-> "AlreadyDefined", sdErr |-> "none", panic |-> FALSE]
    ELSE IF p.isClosed
    THEN [pc |-> p, err |-> ErrConnectionClosed, sdErr |-> "none", panic |-> FALSE]
    ELSE IF ~Unmarshal(desc.SDP)
    THEN [pc |-> p, err |-> "ParseError", sdErr |-> "none", panic |-> FALSE]
    ELSE LET r == setDescription(p, NewDesc(desc.Type, desc.SDP), "setRemote") IN
         IF r.err # "nil"
         THEN [pc |-> r.pc, err |-> r.err, sdErr |-> r.err, panic |-> FALSE]
         ELSE IF RemoteDescription(r.pc) = Nil
         THEN [pc |-> r.pc, err |-> "panic", sdErr |-> "nil", panic |-> TRUE]
         ELSE IF env.remote = "candidateError"
         THEN [pc |-> r.pc, err |-> "CandidateError", sdErr |-> "nil", panic |-> FALSE]
         ELSE IF env.remote = "noFingerprint"
         THEN [pc |-> r.pc, err |-> "NoFingerprint", sdErr |-> "nil", panic |-> FALSE]
         ELSE IF env.remote = "invalidFingerprint"
         THEN [pc |-> r.pc, err |-> "InvalidFingerprint", sdErr |-> "nil", panic |-> FALSE]
         ELSE LET q == [r.pc EXCEPT !.sctpTransport = TRUE,
                                    !.sctpAssociated = FALSE,
                                    !.sctpTransportsCreated = @ + 1,
                                    !.lifecycleTasks = @ + 1]
              IN [pc |-> q,
                  err |-> IF desc.Type \in {"answer", "pranswer"} /\ trickle /\ env.gatherErr
                          THEN "GatherError" ELSE "nil",
                  sdErr |-> "nil", panic |-> FALSE]

\* ------------------------------------------------------------ SDP builder
\* strconv.Itoa
Itoa(n) ==
    CASE n = 0 -> "0" [] n = 1 -> "1" [] n = 2 -> "2" [] n = 3 -> "3" [] n = 4 -> "4"
      [] OTHER -> "n"

\* sdp.NewJSEPSessionDescription: no m-section and no group attribute yet.
NewJSEPSessionDescription == [media |-> <<>>, group |-> <<>>]

WithMedia(d, m) == [d EXCEPT !.media = Append(@, m)]

\* The section addTransceiverSDP emits for a kind without codecs: port 0 and
\* no attribute, so no mid.
RejectedSection(kind) ==
    [media |-> kind, port |-> 0, protos |-> "UDP/TLS/RTP/SAVPF", formats |-> "0",
     mid |-> "", setup |-> "", direction |-> "", sources |-> 0]

\* The number of a=ssrc sources addTransceiverSDP writes: one for each
\* transceiver that sends a track, and only the first one under Unified Plan.
mediaSources(p, transceivers) ==
    LET sending == {i \in 1..Len(transceivers) : transceivers[i].Sender} IN
    IF sending = {} THEN 0
    ELSE IF p.configuration.SDPSemantics = "unified-plan" THEN 1
    ELSE Cardinality(sending)

\* addTransceiverSDP
addTransceiverSDP(p, d, midValue, dtlsRole, transceivers) ==
    IF Len(transceivers) < 1 THEN [d |-> d, err |-> "NoTransceivers"]
    ELSE IF transceivers[1].kind \notin p.codecKinds
    THEN [d |-> WithMedia(d, RejectedSection(transceivers[1].kind)), err |-> "nil"]
    ELSE [d |-> WithMedia(d, [media |-> transceivers[1].kind, port |-> 9,
                              protos |-> "UDP/TLS/RTP/SAVPF", formats |-> "codecs",
                              mid |-> midValue, setup |-> dtlsRole,
                              direction |-> transceivers[1].Direction,
                              sources |-> mediaSources(p, transceivers)]),
          err |-> "nil"]

\* addDataMediaSection
addDataMediaSection(d, midValue, dtlsRole) ==
    WithMedia(d, [media |-> "application", port |-> 9, protos |-> "DTLS/SCTP",
                  formats |-> "5000", mid |-> midValue, setup |-> dtlsRole,
                  direction |-> "sendrecv", sources |-> 0])

\* appendBundle
appendBundle(d, midValue) == [d EXCEPT !.group = Append(@, midValue)]

\* The transceivers of a kind, in the order of the list.
OfKind(ts, kind) == SelectSeq(ts, LAMBDA t : t.kind = kind)

\* The Unified Plan loop of CreateOffer from the i-th transceiver on; the
\* bundle count is the length of the group built so far.
RECURSIVE offerTransceivers(_, _, _)
offerTransceivers(p, d, i) ==
    IF i > Len(p.rtpTransceivers) THEN [d |-> d, err |-> "nil"]
    ELSE LET midValue == Itoa(Len(d.group))
             r == addTransceiverSDP(p, d, midValue, "actpass", <<p.rtpTransceivers[i]>>)
         IN IF r.err # "nil" THEN r
            ELSE offerTransceivers(p, appendBundle(r.d, midValue), i + 1)

\* The Plan-B branch of CreateOffer: one section for the video transceivers,
\* then one for the audio transceivers.
offerPlanB(p, d) ==
    LET video == OfKind(p.rtpTransceivers, "video")
        audio == OfKind(p.rtpTransceivers, "audio")
        dv == IF Len(video) > 0
              THEN appendBundle(addTransceiverSDP(p, d, "video", "actpass", video).d, "video")
              ELSE d
        da == IF Len(audio) > 0
              THEN appendBundle(addTransceiverSDP(p, dv, "audio", "actpass", audio).d, "audio")
              ELSE dv
    IN [d |-> da, err |-> "nil"]

\* The description CreateOffer builds before it is marshalled.
offerDescription(p) ==
    LET planB == p.configuration.SDPSemantics = "plan-b"
        r == IF planB THEN offerPlanB(p, NewJSEPSessionDescription)
             ELSE offerTransceivers(p, NewJSEPSessionDescription, 1)
        midValue == IF planB THEN "data" ELSE Itoa(Len(r.d.group))
    IN IF r.err # "nil" THEN r
       ELSE [d |-> appendBundle(addDataMediaSection(r.d, midValue, "actpass"), midValue),
             err |-> "nil"]

\* CreateOffer; env.optionsSet: options != nil, env.buildErr: a collaborator
\* (fingerprint, gatherer, Marshal) fails, env.text: the text that Marshal
\* returns.
CreateOffer(p, env) ==
    LET r == offerDescription(p) IN
    IF env.optionsSet THEN [pc |-> p, err |-> "TODO", text |-> "", parsed |-> NewJSEPSessionDescription]
    ELSE IF p.isClosed
    THEN [pc |-> p, err |-> ErrConnectionClosed, text |-> "", parsed |-> NewJSEPSessionDescription]
    ELSE IF env.buildErr THEN [pc |-> p, err |-> "BuildError", text |-> "", parsed |-> NewJSEPSessionDescription]
    ELSE IF r.err # "nil" THEN [pc |-> p, err |-> r.err, text |-> "", parsed |-> NewJSEPSessionDescription]
    ELSE [pc |-> [p EXCEPT !.lastOffer = env.text], err |-> "nil", text |-> env.text,
          parsed |-> r.d]

\* ----------------------------------------------------------- SDP reader
ErrIncorrectSDPSemantics == "TypeError{IncorrectSDPSemantics}"

\* The mid values that occur in remote descriptions, folded to lower case.
ToLower(mid) ==
    CASE mid = "Audio" -> "audio" [] mid = "Video" -> "video" [] mid = "Data" -> "data"
      [] OTHER -> mid

\* descriptionIsPlanB on the m-sections of a description: some mid matches
\* (?i)^(audio|video|data)$.
descriptionIsPlanB(media) ==
    \E i \in 1..Len(media) : ToLower(media[i].mid) \in {"audio", "video", "data"}

\* NewRTPCodecType: the kind of an m-section, 0 when it is neither audio nor video.
NewRTPCodecType(m) == IF m \in RTPCodecTypes THEN m ELSE "0"

\* getPreferredDirections of satisfyTypeAndDirection.
getPreferredDirections(remoteDirection) ==
    CASE remoteDirection = "sendrecv" -> <<"recvonly", "sendrecv">>
      [] remoteDirection = "sendonly" -> <<"recvonly", "sendrecv">>
      [] remoteDirection = "recvonly" -> <<"sendonly", "sendrecv">>
      [] OTHER -> <<>>

\* The transceiver satisfyTypeAndDirection returns when none matches.
InactiveTransceiver(kind) ==
    [kind |-> kind, Direction |-> "inactive", Receiver |-> FALSE, Sender |-> FALSE,
     stops |-> 0, hasSent |-> FALSE, receiving |-> FALSE]

RemoveAt(ts, i) == [j \in 1..(Len(ts) - 1) |-> IF j < i THEN ts[j] ELSE ts[j + 1]]

\* append(localTransceivers[:i], localTransceivers[i+1:]...) writes into the
\* array behind localTransceivers: the elements after i move down by one and
\* the last place keeps what it held.
shiftedArray(a, i) ==
    [j \in 1..Len(a) |-> IF j < i \/ j = Len(a) THEN a[j] ELSE a[j + 1]]

\* satisfyTypeAndDirection: the first transceiver of the kind with the most
\* preferred direction, and the list without it; array: what the array behind
\* localTransceivers holds when the call returns.
satisfyTypeAndDirection(remoteKind, remoteDirection, localTransceivers) ==
    LET prefs == getPreferredDirections(remoteDirection)
        Hits(k) == {i \in 1..Len(localTransceivers) :
                       /\ localTransceivers[i].kind = remoteKind
                       /\ localTransceivers[i].Direction = prefs[k]}
        ks == {k \in 1..Len(prefs) : Hits(k) # {}}
    IN IF ks = {}
       THEN [t |-> InactiveTransceiver(remoteKind), rest |-> localTransceivers,
             array |-> localTransceivers]
       ELSE LET k == CHOOSE x \in ks : \A y \in ks : x <= y
                i == CHOOSE x \in Hits(k) : \A y \in Hits(k) : x <= y
            IN [t |-> localTransceivers[i], rest |-> RemoveAt(localTransceivers, i),
                array |-> shiftedArray(localTransceivers, i)]

\* The Plan-B loop of addAnswerMediaTransceivers: keep taking matching
\* transceivers until none is left.
RECURSIVE fillPlanB(_, _, _, _)
fillPlanB(kind, direction, localTransceivers, mediaTransceivers) ==
    LET r == satisfyTypeAndDirection(kind, direction, localTransceivers) IN
    IF r.t.Direction = "inactive"
    THEN [ts |-> mediaTransceivers, rest |-> r.rest]
    ELSE fillPlanB(kind, direction, r.rest, Append(mediaTransceivers, r.t))

\* The check of the semantics against the style of the remote description,
\* made for an audio or video section that carries a direction.
semanticsMismatch(semantics, detectedPlanB) ==
    \/ semantics = "plan-b" /\ ~detectedPlanB
    \/ semantics = "unified-plan" /\ detectedPlanB

\* The loop of addAnswerMediaTransceivers from the i-th remote m-section on.
RECURSIVE answerMedia(_, _, _, _, _)
answerMedia(p, media, i, localTransceivers, d) ==
    IF i > Len(media) THEN [d |-> d, err |-> "nil"]
    ELSE LET m == media[i]
             kind == NewRTPCodecType(m.media)
             detectedPlanB == descriptionIsPlanB(media)
             first == satisfyTypeAndDirection(kind, m.direction, localTransceivers)
             asPlanB == \/ p.configuration.SDPSemantics = "plan-b"
                        \/ /\ p.configuration.SDPSemantics = "unified-plan-with-fallback"
                           /\ detectedPlanB
             more == IF asPlanB THEN fillPlanB(kind, m.direction, first.rest, <<first.t>>)
                     ELSE [ts |-> <<first.t>>, rest |-> first.rest]
             r == addTransceiverSDP(p, d, m.mid, "active", more.ts)
         IN IF m.mid = "" THEN [d |-> d, err |-> "NoMidValue"]
            ELSE IF m.media = "application"
            THEN answerMedia(p, media, i + 1, localTransceivers,
                             appendBundle(addDataMediaSection(d, m.mid, "active"), m.mid))
            ELSE IF kind = "0" \/ m.direction = "unknown"
            THEN answerMedia(p, media, i + 1, localTransceivers, d)
            ELSE IF semanticsMismatch(p.configuration.SDPSemantics, detectedPlanB)
            THEN [d |-> d, err |-> ErrIncorrectSDPSemantics]
            ELSE IF r.err # "nil" THEN r
            ELSE answerMedia(p, media, i + 1, more.rest, appendBundle(r.d, m.mid))

\* addAnswerMediaTransceivers; media: the m-sections of pc.RemoteDescription().
addAnswerMediaTransceivers(p, media) ==
    answerMedia(p, media, 1, p.rtpTransceivers, NewJSEPSessionDescription)

\* CreateAnswer, with the same inputs and the m-sections the remote
\* description parses to.
CreateAnswer(p, env, media) ==
    LET r == addAnswerMediaTransceivers(p, media) IN
    IF env.optionsSet THEN [pc |-> p, err |-> "TODO", text |-> "", parsed |-> NewJSEPSessionDescription]
    ELSE IF RemoteDescription(p) = Nil
    THEN [pc |-> p, err |-> ErrNoRemoteDescription, text |-> "", parsed |-> NewJSEPSessionDescription]
    ELSE IF p.isClosed
    THEN [pc |-> p, err |-> ErrConnectionClosed, text |-> "", parsed |-> NewJSEPSessionDescription]
    ELSE IF env.buildErr THEN [pc |-> p, err |-> "BuildError", text |-> "", parsed |-> NewJSEPSessionDescription]
    ELSE IF r.err # "nil" THEN [pc |-> p, err |-> r.err, text |-> "", parsed |-> NewJSEPSessionDescription]
    ELSE [pc |-> [p EXCEPT !.lastAnswer = env.text], err |-> "nil", text |-> env.text,
          parsed |-> r.d]

\* t.Stop() on every transceiver of the list.
StopAll(ts) == [i \in 1..Len(ts) |-> [ts[i] EXCEPT !.stops = @ + 1]]

StopTargets == {"ice", "dtls", "sctp", "transceiver"}

\* The body of Close once the closed check has passed; stopErrs: the Stop
\* calls that report an error.
closeAll(p, stopErrs) ==
    LET closeErrs ==
          (stopErrs \cap {"ice", "dtls"})
          \cup (IF p.sctpTransport THEN stopErrs \cap {"sctp"} ELSE {})
          \cup (IF Len(p.rtpTransceivers) > 0 THEN stopErrs \cap {"transceiver"} ELSE {})
        q == [p EXCEPT !.isClosed = TRUE,
                       !.signalingState = Closed,
                       !.iceStops = @ + 1,
                       !.connectionState = "closed",
                       !.dtlsStops = @ + 1,
                       !.sctpStops = IF p.sctpTransport THEN @ + 1 ELSE @,
                       !.rtpTransceivers = StopAll(@)]
    IN [pc |-> q, err |-> IF closeErrs = {} THEN "nil" ELSE "StopErrors"]

\* Close without the closed check.
Close_NoClosedCheck(p, stopErrs) == closeAll(p, stopErrs)

\* Close
Close(p, stopErrs) ==
    IF p.isClosed THEN [pc |-> p, err |-> "nil"]
    ELSE closeAll(p, stopErrs)

\* newRTPTransceiver: append to pc.rtpTransceivers.
\* Sender.hasSent() and Receiver.Track() != nil start out false.
newRTPTransceiver(p, receiver, sender, direction, kind) ==
    [p EXCEPT !.rtpTransceivers =
        Append(@, [kind |-> kind, Direction |-> direction, Receiver |-> receiver,
                   Sender |-> sender, stops |-> 0, hasSent |-> FALSE,
                   receiving |-> FALSE])]

\* AddTransceiverFromKind; nInit: len(init), direction: init[0].Direction,
\* collabErr: NewRTPReceiver, NewTrack or NewRTPSender fails.
AddTransceiverFromKind(p, kind, nInit, direction, collabErr) ==
    LET dir == IF nInit = 1 THEN direction ELSE "sendrecv" IN
    IF nInit > 1 THEN [pc |-> p, err |-> "TooManyInits"]
    ELSE IF dir = "sendrecv"
    THEN IF collabErr THEN [pc |-> p, err |-> "CollaboratorError"]
         ELSE IF kind \notin p.codecKinds THEN [pc |-> p, err |-> "NoCodecsFound"]
         ELSE [pc |-> newRTPTransceiver(p, TRUE, TRUE, "sendrecv", kind), err |-> "nil"]
    ELSE IF dir = "recvonly"
    THEN IF collabErr THEN [pc |-> p, err |-> "CollaboratorError"]
         ELSE [pc |-> newRTPTransceiver(p, TRUE, FALSE, "recvonly", kind), err |-> "nil"]
    ELSE [pc |-> p, err |-> "UnsupportedDirection"]

\* ---------------------------------------------------------------- getters
\* populateLocalCandidates; outcome: which collaborator call fails
\* ("candidates": GetLocalCandidates, "marshal": Marshal, "ok": none),
\* nCand: the number of local candidates.
populateLocalCandidates(p, orig, outcome, nCand) ==
    IF orig = Nil THEN [pc |-> p, ret |-> Nil, panic |-> FALSE]
    ELSE IF outcome = "candidates" THEN [pc |-> p, ret |-> orig, panic |-> FALSE]
    ELSE IF p.pendingLocalDescription = Nil THEN [pc |-> p, ret |-> Nil, panic |-> TRUE]
    ELSE LET n == IF nCand > 0 THEN p.pendingLocalDescription.parsed + 1
                  ELSE p.pendingLocalDescription.parsed
             q == [p EXCEPT !.pendingLocalDescription.parsed = n]
         IN IF outcome = "marshal" THEN [pc |-> q, ret |-> orig, panic |-> FALSE]
            ELSE [pc |-> q,
                  ret |-> [Type |-> p.pendingLocalDescription.Type,
                           SDP |-> p.pendingLocalDescription.SDP, parsed |-> n],
                  panic |-> FALSE]

CurrentLocalDescription(p, outcome, nCand) ==
    populateLocalCandidates(p, p.currentLocalDescription, outcome, nCand)

PendingLocalDescription(p, outcome, nCand) ==
    populateLocalCandidates(p, p.pendingLocalDescription, outcome, nCand)

LocalDescription(p, outcome, nCand) ==
    LET r == PendingLocalDescription(p, outcome, nCand) IN
    IF r.panic \/ r.ret # Nil THEN r
    ELSE [pc |-> r.pc, ret |-> r.pc.currentLocalDescription, panic |-> FALSE]

CurrentRemoteDescription(p) == p.currentRemoteDescription

PendingRemoteDescription(p) == p.pendingRemoteDescription

SignalingState(p) == p.signalingState

\* ---------------------------------------------------------- configuration
\* Configuration{}: every field has its zero value.
NoConfiguration ==
    [PeerIdentity |-> "", Certificates |-> << >>, BundlePolicy |-> "unknown",
     RTCPMuxPolicy |-> "unknown", ICECandidatePoolSize |-> 0,
     ICETransportPolicy |-> "unknown", ICEServers |-> << >>]

\* Values of the fields of a configuration: for each field the zero value, the
\* value of the connection, and a different one.
ConfigurationValues ==
    [PeerIdentity : {"", "peer"},
     Certificates : {<<>>, <<"generated">>, <<"other">>},
     BundlePolicy : {"unknown", "balanced", "max-bundle"},
     RTCPMuxPolicy : {"unknown", "negotiate"},
     ICECandidatePoolSize : {0, 1},
     ICETransportPolicy : {"unknown", "relay"},
     ICEServers : {<<>>, <<"valid">>, <<"invalid">>}]

\* The configurations an application hands to SetConfiguration: those that
\* specify at most one field besides the candidate pool size.
Configurations ==
    {c \in ConfigurationValues :
        Cardinality({f \in DOMAIN c \ {"ICECandidatePoolSize"} :
                        c[f] # NoConfiguration[f]}) <= 1}

SDPSemanticsValues == {"unified-plan", "plan-b", "unified-plan-with-fallback"}

\* A pool size check that never finds a local description.
poolSizeFrozen_Never(ld) == FALSE

\* pc.LocalDescription() != nil in the candidate pool size check.
poolSizeFrozen(ld) == ld.ret # Nil

\* SetConfiguration; outcome, nCand: what the collaborators of
\* LocalDescription() do when the candidate pool size check calls it.
SetConfiguration(p, configuration, outcome, nCand) ==
    LET cur == p.configuration
        certsDiffer ==
            \/ Len(configuration.Certificates) # Len(cur.Certificates)
            \/ \E i \in 1..Len(configuration.Certificates) :
                  configuration.Certificates[i] # cur.Certificates[i]
        ld == LocalDescription(p, outcome, nCand)
        p7 == IF configuration.ICECandidatePoolSize # 0
              THEN IF cur.ICECandidatePoolSize # configuration.ICECandidatePoolSize
                   THEN [ld.pc EXCEPT !.configuration.ICECandidatePoolSize =
                                          configuration.ICECandidatePoolSize]
                   ELSE p
              ELSE p
        p8 == IF configuration.ICETransportPolicy # "unknown"
              THEN [p7 EXCEPT !.configuration.ICETransportPolicy =
                                  configuration.ICETransportPolicy]
              ELSE p7
    IN
    IF p.isClosed THEN [pc |-> p, err |-> ErrConnectionClosed, panic |-> FALSE]
    ELSE IF configuration.PeerIdentity # "" /\ configuration.PeerIdentity # cur.PeerIdentity
    THEN [pc |-> p, err |-> "InvalidModificationError{ModifyingPeerIdentity}", panic |-> FALSE]
    ELSE IF Len(configuration.Certificates) > 0 /\ certsDiffer
    THEN [pc |-> p, err |-> "InvalidModificationError{ModifyingCertificates}", panic |-> FALSE]
    ELSE IF configuration.BundlePolicy # "unknown" /\ configuration.BundlePolicy # cur.BundlePolicy
    THEN [pc |-> p, err |-> "InvalidModificationError{ModifyingBundlePolicy}", panic |-> FALSE]
    ELSE IF configuration.RTCPMuxPolicy # "unknown"
            /\ configuration.RTCPMuxPolicy # cur.RTCPMuxPolicy
    THEN [pc |-> p, err |-> "InvalidModificationError{ModifyingRTCPMuxPolicy}", panic |-> FALSE]
    ELSE IF configuration.ICECandidatePoolSize # 0
            /\ cur.ICECandidatePoolSize # configuration.ICECandidatePoolSize
            /\ ld.panic
    THEN [pc |-> ld.pc, err |-> "panic", panic |-> TRUE]
    ELSE IF configuration.ICECandidatePoolSize # 0
            /\ cur.ICECandidatePoolSize # configuration.ICECandidatePoolSize
            /\ poolSizeFrozen(ld)
    THEN [pc |-> ld.pc, err |-> "InvalidModificationError{ModifyingICECandidatePoolSize}",
          panic |-> FALSE]
    ELSE IF \E i \in 1..Len(configuration.ICEServers) : configuration.ICEServers[i] = "invalid"
    THEN [pc |-> p8, err |-> "InvalidAccessError", panic |-> FALSE]
    ELSE [pc |-> IF Len(configuration.ICEServers) > 0
                 THEN [p8 EXCEPT !.configuration.ICEServers = configuration.ICEServers]
                 ELSE p8,
          err |-> "nil", panic |-> FALSE]

\* ------------------------------------------------------ remote candidates
\* AddICECandidate; outcome: "parseError" when the candidate string does not
\* parse, "addError" when the ICE transport refuses the candidate.
AddICECandidate(p, outcome) ==
    IF RemoteDescription(p) = Nil THEN [pc |-> p, err |-> ErrNoRemoteDescription]
    ELSE IF outcome = "parseError" THEN [pc |-> p, err |-> "ParseError"]
    ELSE IF outcome = "addError" THEN [pc |-> p, err |-> "AddRemoteCandidateError"]
    ELSE [pc |-> [p EXCEPT !.remoteCandidates = @ + 1], err |-> "nil"]

\* ------------------------------------------------------------------ tracks
\* The index of the first transceiver AddTrack can reuse for a track of the
\* kind, 0 if there is none (t.stopped is never set by the connection).
reusableTransceiver(p, kind) ==
    LET ok == {i \in 1..Len(p.rtpTransceivers) :
                  /\ p.rtpTransceivers[i].Sender
                  /\ ~p.rtpTransceivers[i].hasSent
                  /\ p.rtpTransceivers[i].Receiver
                  /\ p.rtpTransceivers[i].receiving
                  /\ p.rtpTransceivers[i].kind = kind}
    IN IF ok = {} THEN 0 ELSE CHOOSE i \in ok : \A j \in ok : i <= j

\* AddTrack; collabErr: setSendingTrack, NewRTPReceiver or NewRTPSender fails.
AddTrack(p, kind, collabErr) ==
    IF p.isClosed THEN [pc |-> p, err |-> ErrConnectionClosed]
    ELSE IF collabErr THEN [pc |-> p, err |-> "CollaboratorError"]
    ELSE IF reusableTransceiver(p, kind) # 0 THEN [pc |-> p, err |-> "nil"]
    ELSE [pc |-> newRTPTransceiver(p, TRUE, TRUE, "sendrecv", kind), err |-> "nil"]

\* AddTransceiverFromTrack; nInit: len(init), direction: init[0].Direction,
\* collabErr: NewRTPReceiver or NewRTPSender fails.
AddTransceiverFromTrack(p, kind, nInit, direction, collabErr) ==
    LET dir == IF nInit = 1 THEN direction ELSE "sendrecv" IN
    IF nInit > 1 THEN [pc |-> p, err |-> "TooManyInits"]
    ELSE IF dir = "sendrecv"
    THEN IF collabErr THEN [pc |-> p, err |-> "CollaboratorError"]
         ELSE [pc |-> newRTPTransceiver(p, TRUE, TRUE, "sendrecv", kind), err |-> "nil"]
    ELSE IF dir = "sendonly"
    THEN IF collabErr THEN [pc |-> p, err |-> "CollaboratorError"]
         ELSE [pc |-> newRTPTransceiver(p, FALSE, TRUE, "sendonly", kind), err |-> "nil"]
    ELSE [pc |-> p, err |-> "UnsupportedDirection"]

\* ----------------------------------------------------------- data channels
ErrMaxDataChannelID == "OperationError{MaxDataChannelID}"
ErrRetransmitsOrPacketLifeTime == "TypeError{RetransmitsOrPacketLifeTime}"

\* Stream ids are uint16.
Uint16 == 65536

\* No DataChannelInit.ID.
NoID == -1

\* A nil *DataChannelInit.
NilInit == [set |-> FALSE, ID |-> NoID, MaxPacketLifeTime |-> FALSE, MaxRetransmits |-> FALSE]

\* The DataChannelInit values an application passes, nil included.
DataChannelInits ==
    {NilInit}
    \cup [set : {TRUE}, ID : {NoID} \cup 0..sctpMaxChannels,
          MaxPacketLifeTime : BOOLEAN, MaxRetransmits : BOOLEAN]

\* A new DataChannel object; opens counts the calls of its open().
newDataChannel(options) ==
    [opens |-> 0, maxPacketLifeTime |-> options.MaxPacketLifeTime,
     maxRetransmits |-> options.MaxRetransmits]

\* The loop of generateDataChannelID from the id it has reached.
RECURSIVE scanDataChannelID(_, _, _)
scanDataChannelID(p, id, max) ==
    IF id < (max + Uint16 - 1) % Uint16
    THEN IF id \notin DOMAIN p.dataChannels THEN [id |-> id, err |-> "nil"]
         ELSE scanDataChannelID(p, (id + 2) % Uint16, max)
    ELSE [id |-> 0, err |-> ErrMaxDataChannelID]

\* generateDataChannelID searching the ids of the other parity.
generateDataChannelID_OtherParity(p, client) ==
    scanDataChannelID(p, IF client THEN 1 ELSE 0,
                      IF p.sctpTransport THEN p.maxChannels ELSE sctpMaxChannels)

\* generateDataChannelID
generateDataChannelID(p, client) ==
    scanDataChannelID(p, IF client THEN 0 ELSE 1,
                      IF p.sctpTransport THEN p.maxChannels ELSE sctpMaxChannels)

\* d.open(pc.sctpTransport) on the channel registered under the id.
open(p, id) == [p EXCEPT !.dataChannels[id].opens = @ + 1]

\* The reliability check placed after the channel has been remembered.
rejectBothBounds_AfterStore(p, q) == q

\* The connection a call leaves when both reliability bounds are given: the
\* check comes before the channel is remembered (p: before, q: after).
rejectBothBounds(p, q) == p

\* CreateDataChannel; options.set: options != nil, options.ID: *options.ID or
\* NoID, options.MaxPacketLifeTime/MaxRetransmits: the pointer is not nil;
\* env.newErr: newDataChannel fails, env.openErr: d.open fails.
CreateDataChannel(p, options, env) ==
    LET gen == generateDataChannelID(p, TRUE)
        auto == ~options.set \/ options.ID = NoID
        id == IF auto THEN gen.id ELSE options.ID
        d == newDataChannel(IF options.set THEN options
                            ELSE [MaxPacketLifeTime |-> FALSE, MaxRetransmits |-> FALSE])
        sctpReady == p.sctpTransport /\ p.sctpAssociated
        q == [p EXCEPT !.dataChannels = [i \in DOMAIN @ \cup {id} |->
                                            IF i = id THEN d ELSE @[i]],
                       !.dataChannelsRequested = @ + 1]
    IN
    IF p.isClosed THEN [pc |-> p, err |-> ErrConnectionClosed, id |-> NoID]
    ELSE IF auto /\ gen.err # "nil" THEN [pc |-> p, err |-> gen.err, id |-> NoID]
    ELSE IF env.newErr THEN [pc |-> p, err |-> "NewDataChannelError", id |-> NoID]
    ELSE IF d.maxPacketLifeTime /\ d.maxRetransmits
    THEN [pc |-> rejectBothBounds(p, q), err |-> ErrRetransmitsOrPacketLifeTime,
          id |-> NoID]
    ELSE IF ~sctpReady THEN [pc |-> q, err |-> "nil", id |-> id]
    ELSE IF env.openErr THEN [pc |-> open(q, id), err |-> "OpenError", id |-> NoID]
    ELSE [pc |-> open(q, id), err |-> "nil", id |-> id]


\* ------------------------------------------------------------------ state
NoCall == [op |-> "none", Type |-> "", SDP |-> "", err |-> "nil", sdErr |-> "none",
           from |-> Stable, auto |-> FALSE, both |-> FALSE, id |-> NoID,
           configuration |-> NoConfiguration]

NoGot == [op |-> "none", ret |-> Nil]

\* No set-description call has been started next to another.
NoRace == [start |-> Nil, inflight |-> << >>]

\* satisfyTypeAndDirection has not been called.
NotPlucked ==
    [called |-> FALSE, kind |-> "audio", remoteDirection |-> "inactive",
     candidates |-> << >>, t |-> InactiveTransceiver("audio"), rest |-> << >>,
     registry |-> << >>]

\* openSRTP has not run.
NoSRTP == [called |-> FALSE, collected |-> {}, claims |-> << >>, synthesized |-> << >>]

\* Nothing has been returned by CreateOffer or CreateAnswer yet.
NoneReturned ==
    [offer |-> "", answer |-> "", offerParsed |-> NewJSEPSessionDescription,
     answerParsed |-> NewJSEPSessionDescription]

\* The m-sections of a peer that only offers data channels.
DataOnly == <<[media |-> "application", mid |-> "0", direction |-> "sendrecv"]>>

\* api.NewPeerConnection
NewPeerConnection ==
    [isClosed |-> FALSE,
     signalingState |-> Stable,
     connectionState |-> "new",
     currentLocalDescription |-> Nil,
     pendingLocalDescription |-> Nil,
     currentRemoteDescription |-> Nil,
     pendingRemoteDescription |-> Nil,
     lastOffer |-> "",
     lastAnswer |-> "",
     rtpTransceivers |-> <<>>,
     sctpTransport |-> FALSE,
     sctpTransportsCreated |-> 0,
     lifecycleTasks |-> 0,
     iceStops |-> 0,
     dtlsStops |-> 0,
     sctpStops |-> 0,
     signalingDispatches |-> 0,
     lastSignalingEvent |-> "none",
     configuration |-> [PeerIdentity |-> "",
                        Certificates |-> <<"generated">>,
                        BundlePolicy |-> "balanced",
                        RTCPMuxPolicy |-> "require",
                        ICECandidatePoolSize |-> 0,
                        ICETransportPolicy |-> "all",
                        ICEServers |-> <<>>,
                        SDPSemantics |-> "unified-plan"],
     remoteCandidates |-> 0,
     dataChannels |-> << >>,
     dataChannelsOpened |-> 0,
     dataChannelsRequested |-> 0,
     dataChannelsAccepted |-> 0,
     sctpAssociated |-> FALSE,
     maxChannels |-> sctpMaxChannels,
     codecKinds |-> RTPCodecTypes]

Init ==
    /\ pc = NewPeerConnection
    /\ agentIsTrickle \in BOOLEAN
    /\ last = NoCall
    /\ got = NoGot
    /\ returned = NoneReturned
    /\ calls = 0
    /\ crashed = FALSE
    /\ remoteMedia = DataOnly
    /\ tasks = << >>
    /\ plucked = NotPlucked
    /\ threads = << >>
    /\ racing = NoRace
    /\ srtp = NoSRTP

CanCall == ~crashed /\ calls < MaxCalls

\* The goroutine of SetRemoteDescription before its first step: the step it
\* is at, the transceivers and the data channels it still has to visit, its
\* openedDCCount and the collaborator calls it has made, with their outcomes;
\* drainSRTP and drainSRTCP: the two loops of pc.drainSRTP() ("none" before
\* the go statement, then "running", then "exited").
NewTask ==
    [at |-> "iceStart", senders |-> << >>, dataChannels |-> {}, openedDCCount |-> 0,
     trace |-> << >>, drainSRTP |-> "none", drainSRTCP |-> "none"]

\* go func() { ... }(): a call that leaves with one more goroutine started.
Spawned(q) ==
    IF q.lifecycleTasks > pc.lifecycleTasks THEN Append(tasks, NewTask) ELSE tasks

Called(op, t, text, r, sdErr) ==
    /\ pc' = r.pc
    /\ last' = [op |-> op, Type |-> t, SDP |-> text, err |-> r.err, sdErr |-> sdErr,
                from |-> pc.signalingState, auto |-> FALSE, both |-> FALSE, id |-> NoID,
                configuration |-> NoConfiguration]
    /\ got' = NoGot
    /\ calls' = calls + 1
    /\ tasks' = Spawned(r.pc)
    /\ UNCHANGED <<agentIsTrickle, remoteMedia, asides>>

\* A CreateDataChannel call: last keeps whether the id was left to the
\* connection, whether both reliability bounds were given, and the id of the
\* channel returned.
CalledDataChannel(options, r) ==
    /\ pc' = r.pc
    /\ last' = [op |-> "CreateDataChannel", Type |-> "", SDP |-> "", err |-> r.err,
                sdErr |-> "none", from |-> pc.signalingState,
                auto |-> (~options.set \/ options.ID = NoID),
                both |-> (options.set /\ options.MaxPacketLifeTime
                                     /\ options.MaxRetransmits),
                id |-> r.id, configuration |-> NoConfiguration]
    /\ got' = NoGot
    /\ calls' = calls + 1
    /\ tasks' = Spawned(r.pc)
    /\ UNCHANGED <<agentIsTrickle, remoteMedia, asides>>

\* A SetConfiguration call: last keeps the configuration handed in.
CalledSetConfiguration(configuration, r) ==
    /\ pc' = r.pc
    /\ last' = [NoCall EXCEPT !.op = "SetConfiguration", !.err = r.err,
                              !.from = pc.signalingState,
                              !.configuration = configuration]
    /\ got' = NoGot
    /\ calls' = calls + 1
    /\ tasks' = Spawned(r.pc)
    /\ UNCHANGED <<agentIsTrickle, remoteMedia, asides>>

DoCreateOffer ==
    /\ CanCall
    /\ \E optionsSet \in BOOLEAN, buildErr \in BOOLEAN, text \in Texts :
         LET r == CreateOffer(pc, [optionsSet |-> optionsSet, buildErr |-> buildErr,
                                   text |-> text])
         IN /\ Called("CreateOffer", "offer", r.text, r, "none")
            /\ returned' = IF r.err = "nil"
                           THEN [returned EXCEPT !.offer = r.text,
                                                 !.offerParsed = r.parsed]
                           ELSE returned
    /\ UNCHANGED crashed

DoCreateAnswer ==
    /\ CanCall
    /\ \E optionsSet \in BOOLEAN, buildErr \in BOOLEAN, text \in Texts :
         LET r == CreateAnswer(pc, [optionsSet |-> optionsSet, buildErr |-> buildErr,
                                    text |-> text], remoteMedia)
         IN /\ Called("CreateAnswer", "answer", r.text, r, "none")
            /\ returned' = IF r.err = "nil"
                           THEN [returned EXCEPT !.answer = r.text,
                                                 !.answerParsed = r.parsed]
                           ELSE returned
    /\ UNCHANGED crashed

DoSetLocalDescription ==
    /\ CanCall
    /\ \E t \in SDPTypes, text \in AllTexts, gatherErr \in BOOLEAN :
         LET r == SetLocalDescription(pc, [Type |-> t, SDP |-> text], agentIsTrickle,
                                      [gatherErr |-> gatherErr])
         IN Called("SetLocalDescription", t, text, r, r.sdErr)
    /\ UNCHANGED <<crashed, returned>>

DoSetRemoteDescription ==
    /\ CanCall
    /\ \E t \in SDPTypes, text \in AllTexts,
          env \in [remote : RemoteContents, gatherErr : {FALSE}]
                  \cup {[remote |-> "ok", gatherErr |-> TRUE]} :
         LET r == SetRemoteDescription(pc, [Type |-> t, SDP |-> text], agentIsTrickle,
                                       env)
         IN /\ Called("SetRemoteDescription", t, text, r, r.sdErr)
            /\ crashed' = r.panic
    /\ UNCHANGED returned

DoClose ==
    /\ CanCall
    /\ \E stopErrs \in {{}} \cup {{x} : x \in StopTargets} :
         Called("Close", "", "", Close(pc, stopErrs), "none")
    /\ UNCHANGED <<crashed, returned>>

DoAddTransceiverFromKind ==
    /\ CanCall
    /\ Len(pc.rtpTransceivers) < MaxTransceivers
    /\ \E kind \in RTPCodecTypes, nInit \in 0..2,
          direction \in {"sendrecv", "recvonly", "sendonly"}, collabErr \in BOOLEAN :
         Called("AddTransceiverFromKind", "", "",
                AddTransceiverFromKind(pc, kind, nInit, direction, collabErr), "none")
    /\ UNCHANGED <<crashed, returned>>

\* What the collaborators of a getter do, with the number of local candidates.
GetterEnvs ==
    {[outcome |-> "candidates", nCand |-> 0], [outcome |-> "ok", nCand |-> 0],
     [outcome |-> "ok", nCand |-> 1], [outcome |-> "marshal", nCand |-> 1]}

Got(op, r) ==
    /\ r.pc.pendingLocalDescription.parsed <= MaxParsed
    /\ pc' = r.pc
    /\ got' = [op |-> op, ret |-> r.ret]
    /\ crashed' = r.panic
    /\ UNCHANGED <<agentIsTrickle, last, returned, calls, remoteMedia, tasks, asides>>

DoCurrentLocalDescription ==
    /\ ~crashed
    /\ \E e \in GetterEnvs :
         Got("CurrentLocalDescription", CurrentLocalDescription(pc, e.outcome, e.nCand))

DoPendingLocalDescription ==
    /\ ~crashed
    /\ \E e \in GetterEnvs :
         Got("PendingLocalDescription", PendingLocalDescription(pc, e.outcome, e.nCand))

DoLocalDescription ==
    /\ ~crashed
    /\ \E e \in GetterEnvs :
         Got("LocalDescription", LocalDescription(pc, e.outcome, e.nCand))

DoSetConfiguration ==
    /\ CanCall
    /\ \E configuration \in Configurations, e \in GetterEnvs :
         LET r == SetConfiguration(pc, configuration, e.outcome, e.nCand)
         IN /\ r.pc.pendingLocalDescription.parsed <= MaxParsed
            /\ CalledSetConfiguration(configuration, r)
            /\ crashed' = r.panic
    /\ UNCHANGED returned

DoAddICECandidate ==
    /\ CanCall
    /\ \E outcome \in {"ok", "parseError", "addError"} :
         Called("AddICECandidate", "", "", AddICECandidate(pc, outcome), "none")
    /\ UNCHANGED <<crashed, returned>>

DoAddTrack ==
    /\ CanCall
    /\ Len(pc.rtpTransceivers) < MaxTransceivers
    /\ \E kind \in RTPCodecTypes, collabErr \in BOOLEAN :
         Called("AddTrack", "", "", AddTrack(pc, kind, collabErr), "none")
    /\ UNCHANGED <<crashed, returned>>

DoAddTransceiverFromTrack ==
    /\ CanCall
    /\ Len(pc.rtpTransceivers) < MaxTransceivers
    /\ \E kind \in RTPCodecTypes, nInit \in 0..2,
          direction \in {"sendrecv", "recvonly", "sendonly"}, collabErr \in BOOLEAN :
         Called("AddTransceiverFromTrack", "", "",
                AddTransceiverFromTrack(pc, kind, nInit, direction, collabErr), "none")
    /\ UNCHANGED <<crashed, returned>>

DataChannelEnvs ==
    {[newErr |-> FALSE, openErr |-> FALSE], [newErr |-> TRUE, openErr |-> FALSE],
     [newErr |-> FALSE, openErr |-> TRUE]}

DoCreateDataChannel ==
    /\ CanCall
    /\ \E options \in DataChannelInits, env \in DataChannelEnvs :
         LET r == CreateDataChannel(pc, options, env)
         IN /\ Cardinality(DOMAIN r.pc.dataChannels) <= MaxDataChannels
            /\ CalledDataChannel(options, r)
    /\ UNCHANGED <<crashed, returned>>

\* ------------------------------------------- the goroutine of SetRemoteDescription
\* The steps of the goroutine, in the order of its text.
LifecycleSteps ==
    <<"iceStart", "dtlsStart", "openSRTP", "send", "sctpStart", "copy", "open", "count">>

\* A goroutine that never returns on a failed collaborator call.
aborts_Never(step, ok) == FALSE

\* The calls whose error makes the goroutine return: iceTransport.Start,
\* dtlsTransport.Start and sctpTransport.Start. A failed Sender.Send and a
\* failed d.open are logged only.
aborts(step, ok) == ~ok /\ step \in {"iceStart", "dtlsStart", "sctpStart"}

\* Where the goroutine is after a step; more: the loop the step belongs to, or
\* the loop that follows it, has an element left.
nextStep(step, ok, more) ==
    IF aborts(step, ok) THEN "done"
    ELSE CASE step = "iceStart" -> "dtlsStart"
           [] step = "dtlsStart" -> "openSRTP"
           [] step = "openSRTP" -> IF more THEN "send" ELSE "sctpStart"
           [] step = "send" -> IF more THEN "send" ELSE "sctpStart"
           [] step = "sctpStart" -> "copy"
           [] step = "copy" -> IF more THEN "open" ELSE "count"
           [] step = "open" -> IF more THEN "open" ELSE "count"
           [] step = "count" -> "done"

\* The goroutine after a step that returned ok; go pc.drainSRTP() comes after
\* the loop over the senders, before pc.sctpTransport.Start.
Stepped(t, step, ok, more) ==
    LET next == nextStep(step, ok, more) IN
    [t EXCEPT !.at = next,
              !.trace = Append(@, [step |-> step, ok |-> ok]),
              !.drainSRTP = IF next = "sctpStart" THEN "running" ELSE @,
              !.drainSRTCP = IF next = "sctpStart" THEN "running" ELSE @]

\* A step of goroutine i that leaves the connection q and the goroutine t.
TaskStep(i, q, t) ==
    /\ pc' = q
    /\ tasks' = [tasks EXCEPT ![i] = t]
    /\ got' = NoGot
    /\ UNCHANGED <<agentIsTrickle, last, returned, calls, crashed, remoteMedia, asides>>

AtStep(i, step) == ~crashed /\ tasks[i].at = step

\* pc.iceTransport.Start(...)
ICETransportStart(i) ==
    /\ AtStep(i, "iceStart")
    /\ \E ok \in BOOLEAN : TaskStep(i, pc, Stepped(tasks[i], "iceStart", ok, FALSE))

\* pc.dtlsTransport.Start(...)
DTLSTransportStart(i) ==
    /\ AtStep(i, "dtlsStart")
    /\ \E ok \in BOOLEAN : TaskStep(i, pc, Stepped(tasks[i], "dtlsStart", ok, FALSE))

\* The transceivers that pc.GetTransceivers() returns and that have a Sender.
Senders(p) ==
    LET RECURSIVE from(_)
        from(k) == IF k > Len(p.rtpTransceivers) THEN << >>
                   ELSE IF p.rtpTransceivers[k].Sender THEN <<k>> \o from(k + 1)
                   ELSE from(k + 1)
    IN from(1)

\* pc.openSRTP() and the pc.GetTransceivers() of the loop that follows it. The
\* remote descriptions carry no a=ssrc attribute, so openSRTP finds no incoming
\* track and starts no receiver.
OpenSRTP(i) ==
    /\ AtStep(i, "openSRTP")
    /\ LET senders == Senders(pc)
       IN TaskStep(i, pc, [Stepped(tasks[i], "openSRTP", TRUE, senders # << >>)
                               EXCEPT !.senders = senders])

\* tranceiver.Sender.Send(...) on the next transceiver of the loop.
SenderSend(i) ==
    /\ AtStep(i, "send")
    /\ \E ok \in BOOLEAN :
         LET k == Head(tasks[i].senders)
             rest == Tail(tasks[i].senders)
             q == IF ok THEN [pc EXCEPT !.rtpTransceivers[k].hasSent = TRUE] ELSE pc
         IN TaskStep(i, q, [Stepped(tasks[i], "send", ok, rest # << >>)
                                EXCEPT !.senders = rest])

\* pc.sctpTransport.Start(...): the transport has an association when it
\* returns without error.
SCTPTransportStart(i) ==
    /\ AtStep(i, "sctpStart")
    /\ \E ok \in BOOLEAN :
         TaskStep(i, IF ok THEN [pc EXCEPT !.sctpAssociated = TRUE] ELSE pc,
                  Stepped(tasks[i], "sctpStart", ok, FALSE))

\* The copy of pc.dataChannels made under the lock.
CopyDataChannels(i) ==
    /\ AtStep(i, "copy")
    /\ LET copy == DOMAIN pc.dataChannels
       IN TaskStep(i, pc, [Stepped(tasks[i], "copy", TRUE, copy # {})
                               EXCEPT !.dataChannels = copy])

\* d.open(pc.sctpTransport) on one channel of the copy, in the order the map
\* iteration happens to take.
OpenDataChannel(i) ==
    /\ AtStep(i, "open")
    /\ \E id \in tasks[i].dataChannels, ok \in BOOLEAN :
         LET rest == tasks[i].dataChannels \ {id}
         IN TaskStep(i, open(pc, id),
                     [Stepped(tasks[i], "open", ok, rest # {})
                          EXCEPT !.dataChannels = rest,
                                 !.openedDCCount = IF ok THEN @ + 1 ELSE @])

\* pc.dataChannelsOpened += openedDCCount
AddOpenedCount(i) ==
    /\ AtStep(i, "count")
    /\ TaskStep(i, [pc EXCEPT !.dataChannelsOpened = @ + tasks[i].openedDCCount],
                Stepped(tasks[i], "count", TRUE, FALSE))

\* A drain loop that goes on after an error.
drainExits_Never(ok) == FALSE

\* Both loops of drainSRTP return when getSRTPSession/getSRTCPSession or
\* AcceptStream reports an error.
drainExits(ok) == ~ok

\* One turn of the loop in the goroutine that drainSRTP starts.
DrainSRTP(i) ==
    /\ ~crashed
    /\ tasks[i].drainSRTP = "running"
    /\ \E ok \in BOOLEAN :
         TaskStep(i, pc, [tasks[i] EXCEPT !.drainSRTP =
                                              IF drainExits(ok) THEN "exited" ELSE @])

\* One turn of the loop of drainSRTP itself.
DrainSRTCP(i) ==
    /\ ~crashed
    /\ tasks[i].drainSRTCP = "running"
    /\ \E ok \in BOOLEAN :
         TaskStep(i, pc, [tasks[i] EXCEPT !.drainSRTCP =
                                              IF drainExits(ok) THEN "exited" ELSE @])

\* The signaling operations and Close.
Next ==
    \/ DoCreateOffer
    \/ DoCreateAnswer
    \/ DoSetLocalDescription
    \/ DoSetRemoteDescription
    \/ DoClose

Spec == Init /\ [][Next]_vars

\* The signaling operations with the local description getters.
NextGet ==
    \/ DoCreateOffer
    \/ DoCreateAnswer
    \/ DoSetLocalDescription
    \/ DoSetRemoteDescription
    \/ DoCurrentLocalDescription
    \/ DoPendingLocalDescription
    \/ DoLocalDescription

SpecGet == Init /\ [][NextGet]_vars

\* Close after transceivers have been added and a remote description set.
NextClose ==
    \/ DoAddTransceiverFromKind
    \/ DoSetRemoteDescription
    \/ DoClose

SpecClose == Init /\ [][NextClose]_vars

\* A call made right after Close has returned.
AfterClose(A) == pc.isClosed /\ last.op = "Close" /\ A

\* A connection that gets a remote description and transceivers, is closed,
\* and is then called again.
NextClosed ==
    \/ DoClose
    \/ DoSetRemoteDescription
    \/ DoAddTransceiverFromKind
    \/ AfterClose(DoCreateDataChannel)
    \/ AfterClose(DoSetConfiguration)
    \/ AfterClose(DoCreateOffer)
    \/ AfterClose(DoCreateAnswer)
    \/ AfterClose(DoSetLocalDescription)
    \/ AfterClose(DoAddICECandidate)
    \/ AfterClose(DoAddTrack)
    \/ AfterClose(DoAddTransceiverFromTrack)

SpecClosed == Init /\ [][NextClosed]_vars

\* The m-sections a remote description can carry: video sections without
\* mid, with a Unified Plan mid and with a Plan-B mid, one of them without a
\* direction attribute, and data sections with the mids of the two plans.
RemoteSections ==
    {[media |-> "video", mid |-> "", direction |-> "sendrecv"],
     [media |-> "video", mid |-> "0", direction |-> "sendrecv"],
     [media |-> "video", mid |-> "0", direction |-> "unknown"],
     [media |-> "video", mid |-> "Video", direction |-> "sendrecv"],
     [media |-> "application", mid |-> "1", direction |-> "sendrecv"],
     [media |-> "application", mid |-> "data", direction |-> "sendrecv"]}

MediaLists == UNION {[1..n -> RemoteSections] : n \in 0..MaxSections}

\* A connection constructed with one of the three SDP semantics, whose peer
\* sends descriptions with the m-sections of remoteMedia.
InitAnswer ==
    /\ \E semantics \in SDPSemanticsValues :
         pc = [NewPeerConnection EXCEPT !.configuration.SDPSemantics = semantics]
    /\ agentIsTrickle \in BOOLEAN
    /\ last = NoCall
    /\ got = NoGot
    /\ returned = NoneReturned
    /\ calls = 0
    /\ crashed = FALSE
    /\ remoteMedia \in MediaLists
    /\ tasks = << >>
    /\ plucked = NotPlucked
    /\ threads = << >>
    /\ racing = NoRace
    /\ srtp = NoSRTP

\* A remote offer arrives and is accepted.
RemoteOfferArrives == DoSetRemoteDescription /\ last'.Type = "offer" /\ last'.err = "nil"

\* Answering: transceivers are added, the remote offer arrives and an answer
\* is created.
NextAnswer ==
    \/ DoAddTransceiverFromKind
    \/ RemoteOfferArrives
    \/ DoCreateAnswer

SpecAnswer == InitAnswer /\ [][NextAnswer]_vars

\* Data channels are created, with and without options, before and after
\* the connection is closed.
NextDC ==
    \/ DoCreateDataChannel
    \/ DoClose

SpecDC == Init /\ [][NextDC]_vars

\* The answering side: the remote offer arrives and data channels are
\* created.
NextResponder ==
    \/ RemoteOfferArrives
    \/ DoCreateDataChannel

SpecResponder == Init /\ [][NextResponder]_vars

\* A connection constructed with one of the three SDP semantics and a media
\* engine that has codecs for some of the kinds.
InitOffer ==
    /\ \E semantics \in SDPSemanticsValues, kinds \in SUBSET RTPCodecTypes :
         pc = [NewPeerConnection EXCEPT !.configuration.SDPSemantics = semantics,
                                        !.codecKinds = kinds]
    /\ agentIsTrickle \in BOOLEAN
    /\ last = NoCall
    /\ got = NoGot
    /\ returned = NoneReturned
    /\ calls = 0
    /\ crashed = FALSE
    /\ remoteMedia = DataOnly
    /\ tasks = << >>
    /\ plucked = NotPlucked
    /\ threads = << >>
    /\ racing = NoRace
    /\ srtp = NoSRTP

\* A data channel is created without options.ID.
ChannelCreated == DoCreateDataChannel /\ last'.auto /\ last'.err = "nil"

\* Offering: transceivers and data channels are added and offers are created.
NextOffer ==
    \/ DoAddTransceiverFromKind
    \/ ChannelCreated
    \/ DoCreateOffer

SpecOffer == InitOffer /\ [][NextOffer]_vars

\* A connection with transceivers and data channels that is given remote offers,
\* and the goroutines those offers start.
\* A data channel without reliability bounds has been created.
PlainChannelCreated ==
    /\ ChannelCreated
    /\ ~pc'.dataChannels[last'.id].maxPacketLifeTime
    /\ ~pc'.dataChannels[last'.id].maxRetransmits

NextLifecycle ==
    \/ DoAddTransceiverFromKind
    \/ RemoteOfferArrives
    \/ PlainChannelCreated
    \/ \E i \in DOMAIN tasks : ICETransportStart(i)
    \/ \E i \in DOMAIN tasks : DTLSTransportStart(i)
    \/ \E i \in DOMAIN tasks : OpenSRTP(i)
    \/ \E i \in DOMAIN tasks : SenderSend(i)
    \/ \E i \in DOMAIN tasks : SCTPTransportStart(i)
    \/ \E i \in DOMAIN tasks : CopyDataChannels(i)
    \/ \E i \in DOMAIN tasks : OpenDataChannel(i)
    \/ \E i \in DOMAIN tasks : AddOpenedCount(i)

SpecLifecycle == Init /\ [][NextLifecycle]_vars

\* ------------------------------------------------- satisfyTypeAndDirection
\* The transceivers AddTransceiverFromKind, AddTransceiverFromTrack and AddTrack
\* put into the registry.
RegistryTransceivers ==
    {[kind |-> kind, Direction |-> d.Direction, Receiver |-> d.Receiver,
      Sender |-> d.Sender, stops |-> 0, hasSent |-> FALSE, receiving |-> FALSE] :
        kind \in RTPCodecTypes,
        d \in {[Direction |-> "sendrecv", Receiver |-> TRUE, Sender |-> TRUE],
               [Direction |-> "recvonly", Receiver |-> TRUE, Sender |-> FALSE],
               [Direction |-> "sendonly", Receiver |-> FALSE, Sender |-> TRUE]}}

Registries ==
    UNION {[1..n -> RegistryTransceivers] : n \in 0..MaxCandidates}

RemoteDirections == {"sendrecv", "sendonly", "recvonly", "inactive"}

\* localTransceivers := pc.GetTransceivers(): the slice shares its array with
\* the registry.
localCopy_Shared(registry) == [elems |-> registry, shared |-> TRUE]

\* localTransceivers := append([]*RTPTransceiver{}, pc.GetTransceivers()...):
\* the elements of the registry in an array of their own.
localCopy(registry) == [elems |-> registry, shared |-> FALSE]

\* A connection about to pluck a transceiver for a remote m-section of some
\* kind and direction out of some registry.
InitSatisfy ==
    /\ pc = NewPeerConnection
    /\ agentIsTrickle = FALSE
    /\ last = NoCall
    /\ got = NoGot
    /\ returned = NoneReturned
    /\ calls = 0
    /\ crashed = FALSE
    /\ remoteMedia = DataOnly
    /\ tasks = << >>
    /\ threads = << >>
    /\ racing = NoRace
    /\ srtp = NoSRTP
    /\ \E kind \in RTPCodecTypes, remoteDirection \in RemoteDirections,
          registry \in Registries :
           plucked = [NotPlucked EXCEPT !.kind = kind,
                                        !.remoteDirection = remoteDirection,
                                        !.candidates = registry,
                                        !.registry = registry]

\* addAnswerMediaTransceivers plucks a transceiver for the m-section out of its
\* copy of the registry.
DoSatisfyTypeAndDirection ==
    /\ ~plucked.called
    /\ LET localTransceivers == localCopy(plucked.registry)
           r == satisfyTypeAndDirection(plucked.kind, plucked.remoteDirection,
                                        localTransceivers.elems)
       IN plucked' = [plucked EXCEPT !.called = TRUE, !.t = r.t, !.rest = r.rest,
                                     !.registry = IF localTransceivers.shared
                                                  THEN r.array ELSE @]
    /\ UNCHANGED <<pc, agentIsTrickle, last, got, returned, calls, crashed,
                   remoteMedia, tasks, threads, racing, srtp>>

SpecSatisfy == InitSatisfy /\ [][DoSatisfyTypeAndDirection]_vars

\* ------------------------------------------------------- pc.mu and the tasks
\* What a task does next: take or release pc.mu, call into a collaborator,
\* start a handler in a goroutine of its own ("go") or call it ("invoke").
Ins(op, arg) == [op |-> op, arg |-> arg]

\* onSignalingStateChange, onTrack and onICEConnectionStateChange: the handler
\* is read under the read lock and started with go.
dispatch(kind) == <<Ins("RLock", ""), Ins("RUnlock", ""), Ins("go", kind)>>

\* The statements of each entry point that take pc.mu, call into a transport,
\* the gatherer, the API object or a data channel, or dispatch a handler, in
\* the order of the text and with every handler registered.
Programs ==
    [SetLocalDescription |->
         dispatch("signaling") \o <<Ins("call", "iceGatherer")>>,
     SetRemoteDescription |->
         dispatch("signaling")
             \o <<Ins("call", "iceTransport"), Ins("call", "api"),
                  Ins("call", "sctpTransport")>>,
     iceStateChange |->
         <<Ins("Lock", ""), Ins("Unlock", "")>> \o dispatch("iceconnection"),
     startReceiver |->
         <<Ins("call", "receiver"), Ins("RLock", ""), Ins("call", "mediaEngine")>>
             \o dispatch("track") \o <<Ins("RUnlock", "")>>,
     OnDataChannel |->
         <<Ins("RLock", ""), Ins("RUnlock", ""), Ins("invoke", "datachannel")>>,
     CreateDataChannel |->
         <<Ins("Lock", ""), Ins("call", "api"), Ins("Unlock", ""),
           Ins("call", "dataChannel")>>,
     GetStats |->
         <<Ins("Lock", ""), Ins("call", "dataChannel"), Ins("call", "iceGatherer"),
           Ins("Unlock", "")>>,
     handler |-> <<Ins("run", "")>>]

EntryPoints == DOMAIN Programs \ {"handler"}

\* A task at the start of an entry point; trigger: the task whose go statement
\* started it (0: the application or a transport); prior: the entry points
\* that had returned when this one was entered. A goroutine started with go
\* runs its handler when the scheduler gets to it.
NewThread(prog, trigger, kind) ==
    [prog |-> prog, ip |-> 1, w |-> FALSE, r |-> 0, inside |-> "none",
     handler |-> kind, running |-> FALSE, trigger |-> trigger, prior |-> {}]

\* The instruction a task is at ("done" past the end of its program).
At(i) ==
    IF threads[i].ip > Len(Programs[threads[i].prog]) THEN Ins("done", "")
    ELSE Programs[threads[i].prog][threads[i].ip]

Holds(i) == threads[i].w \/ threads[i].r > 0

ThreadStep(i, t) ==
    /\ threads' = [threads EXCEPT ![i] = t]
    /\ UNCHANGED <<pc, agentIsTrickle, last, got, returned, calls, crashed,
                   remoteMedia, tasks, plucked, racing, srtp>>

\* The application or a transport enters an entry point.
StartOperation ==
    /\ Len(SelectSeq(threads, LAMBDA t : t.prog # "handler")) < MaxThreads
    /\ \E prog \in EntryPoints :
           threads' = Append(threads,
                             [NewThread(prog, 0, "none") EXCEPT !.prior =
                                 {j \in DOMAIN threads :
                                     /\ threads[j].prog # "handler"
                                     /\ At(j).op = "done"}])
    /\ UNCHANGED <<pc, agentIsTrickle, last, got, returned, calls, crashed,
                   remoteMedia, tasks, plucked, racing, srtp>>

\* pc.mu.Lock(): waits until nobody holds the mutex.
MuLock(i) ==
    /\ At(i).op = "Lock"
    /\ \A j \in DOMAIN threads : ~Holds(j)
    /\ ThreadStep(i, [threads[i] EXCEPT !.w = TRUE, !.ip = @ + 1])

\* pc.mu.Unlock()
MuUnlock(i) ==
    /\ At(i).op = "Unlock"
    /\ ThreadStep(i, [threads[i] EXCEPT !.w = FALSE, !.ip = @ + 1])

\* pc.mu.RLock(): waits until no writer holds the mutex.
MuRLock(i) ==
    /\ At(i).op = "RLock"
    /\ \A j \in DOMAIN threads : ~threads[j].w
    /\ ThreadStep(i, [threads[i] EXCEPT !.r = @ + 1, !.ip = @ + 1])

\* pc.mu.RUnlock()
MuRUnlock(i) ==
    /\ At(i).op = "RUnlock"
    /\ ThreadStep(i, [threads[i] EXCEPT !.r = @ - 1, !.ip = @ + 1])

\* The task enters a method of a collaborator.
EnterCall(i) ==
    /\ At(i).op = "call"
    /\ threads[i].inside = "none"
    /\ ThreadStep(i, [threads[i] EXCEPT !.inside = At(i).arg])

\* The method of the collaborator returns.
ReturnFromCall(i) ==
    /\ At(i).op = "call"
    /\ threads[i].inside # "none"
    /\ ThreadStep(i, [threads[i] EXCEPT !.inside = "none", !.ip = @ + 1])

\* go func() { hdlr(...) }(): a goroutine is created for the handler.
GoHandler(i) ==
    /\ At(i).op = "go"
    /\ threads' = Append([threads EXCEPT ![i].ip = @ + 1],
                         NewThread("handler", i, At(i).arg))
    /\ UNCHANGED <<pc, agentIsTrickle, last, got, returned, calls, crashed,
                   remoteMedia, tasks, plucked, racing, srtp>>

\* The goroutine of a go statement is scheduled and calls the handler.
HandlerStarts(i) ==
    /\ At(i).op = "run"
    /\ ~threads[i].running
    /\ ThreadStep(i, [threads[i] EXCEPT !.running = TRUE])

\* hdlr(d): the task runs the handler itself.
InvokeHandler(i) ==
    /\ At(i).op = "invoke"
    /\ ~threads[i].running
    /\ ThreadStep(i, [threads[i] EXCEPT !.running = TRUE, !.handler = At(i).arg,
                                        !.trigger = i])

\* The application's handler returns.
HandlerReturns(i) ==
    /\ threads[i].running
    /\ ThreadStep(i, [threads[i] EXCEPT !.running = FALSE,
                                        !.ip = IF @ > Len(Programs[threads[i].prog])
                                               THEN @ ELSE @ + 1])

NextLocks ==
    \/ StartOperation
    \/ \E i \in DOMAIN threads : MuLock(i)
    \/ \E i \in DOMAIN threads : MuUnlock(i)
    \/ \E i \in DOMAIN threads : MuRLock(i)
    \/ \E i \in DOMAIN threads : MuRUnlock(i)
    \/ \E i \in DOMAIN threads : EnterCall(i)
    \/ \E i \in DOMAIN threads : ReturnFromCall(i)
    \/ \E i \in DOMAIN threads : GoHandler(i)
    \/ \E i \in DOMAIN threads : HandlerStarts(i)
    \/ \E i \in DOMAIN threads : InvokeHandler(i)
    \/ \E i \in DOMAIN threads : HandlerReturns(i)

SpecLocks == Init /\ [][NextLocks]_vars

\* ------------------------------------------------------------ SetConfiguration
\* SetConfiguration on a connection that creates offers and sets them as its
\* local description.
OfferCreated == DoCreateOffer /\ last'.err = "nil"

LocalDescriptionSet == DoSetLocalDescription /\ last'.err = "nil"

NextConfiguration ==
    \/ OfferCreated
    \/ LocalDescriptionSet
    \/ DoSetConfiguration

SpecConfiguration == Init /\ [][NextConfiguration]_vars

\* ------------------------------------- set-description calls at the same time
\* setDescription takes no lock: a call reads pc.currentRemoteDescription,
\* pc.isClosed and pc.signalingState, and later writes the slots and the state.
\* The calls that run at the same time are of type offer, pranswer or answer,
\* with collaborators that report no error.
RacingCalls ==
    [op : {"SetLocalDescription", "SetRemoteDescription"},
     Type : {"offer", "pranswer", "answer"}, SDP : Texts \cup {""}]

\* What a call does when it runs alone on connection p.
Alone(p, c) ==
    IF c.op = "SetLocalDescription"
    THEN SetLocalDescription(p, [Type |-> c.Type, SDP |-> c.SDP], agentIsTrickle,
                             [gatherErr |-> FALSE])
    ELSE LET r == SetRemoteDescription(p, [Type |-> c.Type, SDP |-> c.SDP],
                                       agentIsTrickle,
                                       [remote |-> "ok", gatherErr |-> FALSE])
         IN [pc |-> r.pc, err |-> r.err, sdErr |-> r.sdErr]

\* The connection as a call sees it that read remote, closed and cur earlier.
SeenBy(p, c) ==
    [p EXCEPT !.signalingState = c.cur, !.isClosed = c.closed,
              !.currentRemoteDescription =
                  IF c.op = "SetRemoteDescription" THEN c.remote ELSE @]

\* The connection p after call c has made its writes q: the call never writes
\* isClosed, writes signalingState only when setDescription succeeds, and
\* SetRemoteDescription has written currentRemoteDescription only when q holds
\* another description than the one it read.
Written(p, c, r) ==
    [r.pc EXCEPT !.isClosed = p.isClosed,
                 !.signalingState = IF r.sdErr = "nil" THEN @ ELSE p.signalingState,
                 !.currentRemoteDescription =
                     IF c.op = "SetRemoteDescription" /\ @ = c.remote
                     THEN p.currentRemoteDescription ELSE @]

\* A call starts and reads what it checks first (src 854-859, 798-800, 699-703).
BeginSetDescription ==
    /\ CanCall
    /\ Len(racing.inflight) < 2
    /\ \E c \in RacingCalls :
           racing' = [start |-> IF racing.inflight = << >> THEN pc ELSE racing.start,
                      inflight |-> Append(racing.inflight,
                                          [op |-> c.op, Type |-> c.Type, SDP |-> c.SDP,
                                           remote |-> pc.currentRemoteDescription,
                                           closed |-> pc.isClosed,
                                           cur |-> pc.signalingState,
                                           done |-> FALSE, err |-> "nil"])]
    /\ calls' = calls + 1
    /\ UNCHANGED <<pc, agentIsTrickle, last, got, returned, crashed, remoteMedia,
                   tasks, plucked, threads, srtp>>

\* The call checks the transition against the state it read, writes the slots
\* and the state and returns.
FinishSetDescription(i) ==
    /\ ~crashed
    /\ ~racing.inflight[i].done
    /\ LET c == racing.inflight[i]
           r == Alone(SeenBy(pc, c), c)
           q == Written(pc, c, r)
       IN /\ pc' = q
          /\ tasks' = Spawned(q)
          /\ racing' = [racing EXCEPT !.inflight[i].done = TRUE,
                                      !.inflight[i].err = r.err]
    /\ got' = NoGot
    /\ UNCHANGED <<agentIsTrickle, last, returned, calls, crashed, remoteMedia,
                   plucked, threads, srtp>>

\* One caller at a time, before the calls that overlap.
Sequentially(A) == racing.inflight = << >> /\ A

NextRace ==
    \/ Sequentially(OfferCreated)
    \/ Sequentially(LocalDescriptionSet)
    \/ Sequentially(RemoteOfferArrives)
    \/ BeginSetDescription
    \/ \E i \in DOMAIN racing.inflight : FinishSetDescription(i)
    \/ DoClose

SpecRace == Init /\ [][NextRace]_vars

\* ------------------------------------------------- data channels on an open transport
\* A data channel the remote peer has opened, as the SCTP transport hands it over.
acceptedDataChannel ==
    [opens |-> 0, maxPacketLifeTime |-> FALSE, maxRetransmits |-> FALSE]

\* The callback given to sctp.OnDataChannel, for a channel with stream id id.
OnDataChannel(p, id) ==
    [p EXCEPT !.dataChannels = [i \in DOMAIN @ \cup {id} |->
                                   IF i = id THEN acceptedDataChannel ELSE @[i]],
              !.dataChannelsAccepted = @ + 1]

\* The SCTP transport delivers a channel: it has been created by
\* SetRemoteDescription and started by the goroutine.
DoOnDataChannel ==
    /\ CanCall
    /\ pc.sctpTransport /\ pc.sctpAssociated
    /\ \E id \in 0..sctpMaxChannels :
         LET q == OnDataChannel(pc, id)
         IN /\ Cardinality(DOMAIN q.dataChannels) <= MaxDataChannels
            /\ pc' = q
            /\ last' = [NoCall EXCEPT !.op = "OnDataChannel", !.id = id,
                                      !.from = pc.signalingState]
    /\ got' = NoGot
    /\ calls' = calls + 1
    /\ UNCHANGED <<agentIsTrickle, returned, crashed, remoteMedia, tasks, asides>>

\* Data channels are created and delivered before and after the goroutine of a
\* remote offer has brought the transports up.
\* A call made while no goroutine is on its way to the SCTP association.
TransportsSettled(A) ==
    /\ \A i \in DOMAIN tasks : tasks[i].at \in {"copy", "done"}
    /\ A

NextChannels ==
    \/ TransportsSettled(RemoteOfferArrives)
    \/ TransportsSettled(DoCreateDataChannel)
    \/ DoOnDataChannel
    \/ \E i \in DOMAIN tasks : ICETransportStart(i)
    \/ \E i \in DOMAIN tasks : DTLSTransportStart(i)
    \/ \E i \in DOMAIN tasks : OpenSRTP(i)
    \/ \E i \in DOMAIN tasks : SCTPTransportStart(i)

SpecChannels == Init /\ [][NextChannels]_vars

\* ------------------------------------------------------------------ openSRTP
\* The a=ssrc lines of one m-section: the SSRC, and whether the line has the
\* form "<ssrc> msid:<label> <id>" with a label and an id.
SSRCLines ==
    UNION {[1..n -> [ssrc : 1..MaxSSRC, msid : BOOLEAN]] : n \in 0..MaxSSRC}

\* The attribute loop over one m-section: every a=ssrc line is put into
\* incomingTracks under its SSRC, and the loop ends at the first line that
\* gave a label and an id.
RECURSIVE scanAttributes(_, _, _, _)
scanAttributes(codecType, lines, k, incomingTracks) ==
    IF k > Len(lines) THEN incomingTracks
    ELSE LET a == lines[k]
             put == [x \in DOMAIN incomingTracks \cup {a.ssrc} |->
                        IF x = a.ssrc THEN [kind |-> codecType, msid |-> a.msid]
                        ELSE incomingTracks[x]]
         IN IF a.msid THEN put ELSE scanAttributes(codecType, lines, k + 1, put)

\* The loop over the m-sections of pc.RemoteDescription() from section i on.
RECURSIVE collectIncomingTracks(_, _, _)
collectIncomingTracks(media, i, incomingTracks) ==
    IF i > Len(media) THEN incomingTracks
    ELSE LET codecType == NewRTPCodecType(media[i].media)
         IN collectIncomingTracks(media, i + 1,
                IF codecType = "0" THEN incomingTracks
                ELSE scanAttributes(codecType, media[i].ssrcs, 1, incomingTracks))

\* remoteIsPlanB of openSRTP.
remoteIsPlanB(p, media) ==
    CASE p.configuration.SDPSemantics = "plan-b" -> TRUE
      [] p.configuration.SDPSemantics = "unified-plan-with-fallback" ->
             descriptionIsPlanB(media)
      [] OTHER -> FALSE

\* The keys of a map in the order an iteration yields them: the order is not
\* fixed, priority is the one this run takes.
rangeOrder(keys, priority) == SelectSeq(priority, LAMBDA x : x \in keys)

\* The loop over incomingTracks that hands each SSRC the first transceiver of
\* localTransceivers with its kind, a receiving direction and a receiver;
\* localTransceivers holds places of the registry, order the SSRCs still to
\* visit.
RECURSIVE claimTransceivers(_, _, _, _, _)
claimTransceivers(p, order, incomingTracks, localTransceivers, starts) ==
    IF order = << >>
    THEN [incomingTracks |-> incomingTracks, starts |-> starts]
    ELSE LET ssrc == Head(order)
             hits == {i \in 1..Len(localTransceivers) :
                         LET t == p.rtpTransceivers[localTransceivers[i]]
                         IN /\ t.kind = incomingTracks[ssrc].kind
                            /\ t.Direction \in {"recvonly", "sendrecv"}
                            /\ t.Receiver}
         IN IF hits = {}
            THEN claimTransceivers(p, Tail(order), incomingTracks, localTransceivers,
                                   starts)
            ELSE LET i == CHOOSE x \in hits : \A y \in hits : x <= y
                 IN claimTransceivers(
                        p, Tail(order),
                        [x \in DOMAIN incomingTracks \ {ssrc} |-> incomingTracks[x]],
                        RemoveAt(localTransceivers, i),
                        Append(starts, [ssrc |-> ssrc, kind |-> incomingTracks[ssrc].kind,
                                        t |-> localTransceivers[i]]))

\* The Plan-B loop over the SSRCs that are left: pc.AddTransceiver(kind,
\* sendrecv) and, when it returns no error, a receiver start on the new
\* transceiver.
RECURSIVE synthesizeTransceivers(_, _, _, _)
synthesizeTransceivers(p, order, incomingTracks, starts) ==
    IF order = << >> THEN [pc |-> p, starts |-> starts]
    ELSE LET ssrc == Head(order)
             r == AddTransceiverFromKind(p, incomingTracks[ssrc].kind, 1, "sendrecv",
                                         FALSE)
         IN IF r.err # "nil"
            THEN synthesizeTransceivers(p, Tail(order), incomingTracks, starts)
            ELSE synthesizeTransceivers(
                     r.pc, Tail(order), incomingTracks,
                     Append(starts, [ssrc |-> ssrc, kind |-> incomingTracks[ssrc].kind,
                                     t |-> Len(r.pc.rtpTransceivers)]))

\* openSRTP on the m-sections of the remote description; first and second:
\* the orders the two loops over incomingTracks take. The receiver
\* constructors report no error.
openSRTP(p, media, first, second) ==
    LET incomingTracks == collectIncomingTracks(media, 1, << >>)
        claimed == claimTransceivers(p, rangeOrder(DOMAIN incomingTracks, first),
                                     incomingTracks,
                                     [i \in 1..Len(p.rtpTransceivers) |-> i], << >>)
        added == IF remoteIsPlanB(p, media)
                 THEN synthesizeTransceivers(
                          p, rangeOrder(DOMAIN claimed.incomingTracks, second),
                          claimed.incomingTracks, << >>)
                 ELSE [pc |-> p, starts |-> << >>]
    IN [pc |-> added.pc, collected |-> DOMAIN incomingTracks,
        claims |-> claimed.starts, synthesized |-> added.starts]

\* The orders in which a loop can meet the SSRCs.
SSRCOrders ==
    {o \in [1..MaxSSRC -> 1..MaxSSRC] : \A x \in 1..MaxSSRC : \E k \in 1..MaxSSRC : o[k] = x}

\* The registries of a connection whose application has added transceivers.
SRTPRegistries ==
    UNION {[1..n -> RegistryTransceivers] : n \in 0..MaxSSRC}

\* The remote descriptions: one audio or video section, with the mid of one of
\* the two plans, that announces SSRCs.
SSRCSections ==
    {<<[media |-> kind, mid |-> mid, direction |-> "sendrecv", ssrcs |-> lines]>> :
        kind \in RTPCodecTypes, mid \in {"0", "video"}, lines \in SSRCLines}

\* The goroutine of a remote offer has started ICE and DTLS and is about to
\* call openSRTP; Close may have run in between.
InitOpenSRTP ==
    /\ \E semantics \in SDPSemanticsValues, registry \in SRTPRegistries,
          closed \in BOOLEAN :
         LET new == [NewPeerConnection EXCEPT !.configuration.SDPSemantics = semantics,
                                              !.rtpTransceivers = registry]
             offered == SetRemoteDescription(new, [Type |-> "offer", SDP |-> "s1"],
                                             FALSE,
                                             [remote |-> "ok", gatherErr |-> FALSE]).pc
         IN pc = IF closed THEN Close(offered, {}).pc ELSE offered
    /\ remoteMedia \in SSRCSections
    /\ tasks = <<[NewTask EXCEPT !.at = "openSRTP",
                                 !.trace = <<[step |-> "iceStart", ok |-> TRUE],
                                             [step |-> "dtlsStart", ok |-> TRUE]>>]>>
    /\ agentIsTrickle = FALSE
    /\ last = NoCall
    /\ got = NoGot
    /\ returned = NoneReturned
    /\ calls = 0
    /\ crashed = FALSE
    /\ plucked = NotPlucked
    /\ threads = << >>
    /\ racing = NoRace
    /\ srtp = NoSRTP

\* pc.openSRTP() in the goroutine, and the pc.GetTransceivers() that follows it.
DoOpenSRTP ==
    /\ AtStep(1, "openSRTP")
    /\ \E first \in SSRCOrders, second \in SSRCOrders :
         LET r == openSRTP(pc, remoteMedia, first, second)
             senders == Senders(r.pc)
         IN /\ pc' = r.pc
            /\ srtp' = [called |-> TRUE, collected |-> r.collected,
                        claims |-> r.claims, synthesized |-> r.synthesized]
            /\ tasks' = [tasks EXCEPT ![1] =
                            [Stepped(tasks[1], "openSRTP", TRUE, senders # << >>)
                                 EXCEPT !.senders = senders]]
    /\ UNCHANGED <<agentIsTrickle, last, got, returned, calls, crashed, remoteMedia,
                   plucked, threads, racing>>

SpecOpenSRTP == InitOpenSRTP /\ [][DoOpenSRTP]_vars

\* ------------------------------------------------------ Close and the goroutine
\* The goroutine and its drain loops have returned.
Exited(i) ==
    /\ tasks[i].at = "done"
    /\ tasks[i].drainSRTP # "running"
    /\ tasks[i].drainSRTCP # "running"

\* Close is called while a goroutine or a drain loop is still running.
CloseInFlight == DoClose /\ \E i \in DOMAIN tasks : ~Exited(i)

\* A transceiver with a sender is added before the remote offer arrives.
SenderAdded ==
    /\ tasks = << >>
    /\ DoAddTransceiverFromKind
    /\ last'.err = "nil"
    /\ pc'.rtpTransceivers[Len(pc'.rtpTransceivers)].Sender

\* A call into a transport that Close has stopped returns, and returns an
\* error: the step of goroutine i changes the goroutine, and what it appends to
\* the trace is a failure.
OnStopped(i, A) ==
    /\ A
    /\ pc.isClosed =>
           /\ tasks'[i] # tasks[i]
           /\ Len(tasks'[i].trace) > Len(tasks[i].trace)
                  => ~tasks'[i].trace[Len(tasks'[i].trace)].ok

\* The goroutine i takes its next step.
LifecycleStep(i) ==
    /\ i \in DOMAIN tasks
    /\ \/ OnStopped(i, ICETransportStart(i))
       \/ OnStopped(i, DTLSTransportStart(i))
       \/ OpenSRTP(i)
       \/ OnStopped(i, SenderSend(i))
       \/ OnStopped(i, SCTPTransportStart(i))
       \/ CopyDataChannels(i)
       \/ OnStopped(i, OpenDataChannel(i))
       \/ AddOpenedCount(i)

SRTPDrainStep(i) == i \in DOMAIN tasks /\ OnStopped(i, DrainSRTP(i))

SRTCPDrainStep(i) == i \in DOMAIN tasks /\ OnStopped(i, DrainSRTCP(i))

\* A data channel is created before the remote offer arrives.
ChannelPrepared == tasks = << >> /\ PlainChannelCreated

NextShutdown ==
    \/ SenderAdded
    \/ ChannelPrepared
    \/ RemoteOfferArrives
    \/ CloseInFlight
    \/ \E i \in 1..MaxCalls : LifecycleStep(i)
    \/ \E i \in 1..MaxCalls : SRTPDrainStep(i)
    \/ \E i \in 1..MaxCalls : SRTCPDrainStep(i)

\* A call into a running transport may block for ever; once Close has stopped
\* the transports every call returns, so each goroutine keeps taking steps.
SpecShutdown ==
    /\ Init
    /\ [][NextShutdown]_vars
    /\ \A i \in 1..MaxCalls :
           /\ WF_vars(pc.isClosed /\ LifecycleStep(i))
           /\ WF_vars(pc.isClosed /\ SRTPDrainStep(i))
           /\ WF_vars(pc.isClosed /\ SRTCPDrainStep(i))

TypeOK ==
    /\ pc.signalingState \in SignalingStates
    /\ pc.isClosed \in BOOLEAN
    /\ calls \in 0..MaxCalls

\* ------------------------------------------------------------- properties
SetOps == {"SetLocalDescription", "SetRemoteDescription"}

OpName(op) == IF op = "setLocal" THEN "SetLocalDescription" ELSE "SetRemoteDescription"

\* The nine non-rollback rows of the signaling table: <<from, op, type, to>>.
NineRows ==
    {<<Stable, "setLocal", "offer", HaveLocalOffer>>,
     <<HaveLocalOffer, "setLocal", "offer", HaveLocalOffer>>,
     <<HaveRemoteOffer, "setLocal", "answer", Stable>>,
     <<HaveRemoteOffer, "setLocal", "pranswer", HaveLocalPranswer>>,
     <<HaveLocalPranswer, "setLocal", "answer", Stable>>,
     <<Stable, "setRemote", "offer", HaveRemoteOffer>>,
     <<HaveLocalOffer, "setRemote", "answer", Stable>>,
     <<HaveLocalOffer, "setRemote", "pranswer", HaveRemotePranswer>>,
     <<HaveRemotePranswer, "setRemote", "answer", Stable>>}

IsRow(from, op, t) == \E row \in NineRows : row[1] = from /\ row[2] = op /\ row[3] = t

\* The text a local description of type t has to carry.
LastCreated(p, t) == IF t = "offer" THEN p.lastOffer ELSE p.lastAnswer

\* The text a set-description call with text given carries into setDescription.
Effective(p, op, t, given) ==
    IF op = "setLocal" /\ given = "" THEN LastCreated(p, t) ELSE given

\* The call (op, t, given) made in state p gets as far as setDescription.
ReachesSetDescription(p, op, t, given) ==
    /\ ~p.isClosed
    /\ Unmarshal(Effective(p, op, t, given))
    /\ op = "setRemote" => p.currentRemoteDescription = Nil

Slots(p) == <<p.currentLocalDescription, p.pendingLocalDescription,
              p.currentRemoteDescription, p.pendingRemoteDescription>>

\* C1: on a non-closed connection every one of the nine non-rollback rows of
\* the signaling table succeeds in setDescription and leaves signalingState
\* at the row's target (for setLocal, when the text equals the last created
\* offer/answer).
C1_RowsSucceed ==
    [][\A row \in NineRows :
         ( /\ last'.op = OpName(row[2])
           /\ last'.Type = row[3]
           /\ pc.signalingState = row[1]
           /\ ReachesSetDescription(pc, row[2], row[3], last'.SDP)
           /\ row[2] = "setLocal" =>
                Effective(pc, row[2], row[3], last'.SDP) = LastCreated(pc, row[3]) )
         => (last'.sdErr = "nil" /\ pc'.signalingState = row[4])]_vars

\* A set-remote answer has succeeded from have-remote-pranswer.
C1_Witness ==
    /\ last.op = "SetRemoteDescription"
    /\ last.Type = "answer"
    /\ last.from = HaveRemotePranswer
    /\ last.sdErr = "nil"
    /\ pc.signalingState = Stable

\* C2: a set-description of type offer, pranswer or answer whose (state, op,
\* type) is not a row of the table returns InvalidModificationError and
\* leaves signalingState and the four description slots unchanged and
\* dispatches no signaling callback.
C2_OtherPairsRejected ==
    [][\A op \in stateChangeOps, t \in {"offer", "pranswer", "answer"} :
         ( /\ last'.op = OpName(op)
           /\ last'.Type = t
           /\ ReachesSetDescription(pc, op, t, last'.SDP)
           /\ ~IsRow(pc.signalingState, op, t) )
         => ( /\ last'.sdErr = "InvalidModificationError"
              /\ last'.err = "InvalidModificationError"
              /\ pc'.signalingState = pc.signalingState
              /\ Slots(pc') = Slots(pc)
              /\ pc'.signalingDispatches = pc.signalingDispatches )]_vars

\* A set-local offer carrying the last created offer was refused in
\* have-remote-offer.
C2_Witness ==
    /\ last.op = "SetLocalDescription"
    /\ last.Type = "offer"
    /\ last.from = HaveRemoteOffer
    /\ last.SDP \in Texts
    /\ last.SDP = pc.lastOffer
    /\ last.sdErr = "InvalidModificationError"
    /\ pc.signalingState = HaveRemoteOffer
    /\ pc.pendingLocalDescription = Nil

\* C3: from every non-closed signaling state SetLocalDescription and
\* SetRemoteDescription of type rollback return without error, without
\* crashing, and leave signalingState = stable.
C3_RollbackReachesStable ==
    [][( /\ last'.op \in SetOps
         /\ last'.Type = "rollback"
         /\ ~pc.isClosed )
       => (last'.err = "nil" /\ ~crashed' /\ pc'.signalingState = Stable)]_vars

\* C4: when a set-description of type answer succeeds, both pending slots are
\* null afterwards, the current slot of the side that was set holds the answer
\* supplied, and the current slot of the other side holds what was in that
\* side's pending slot before the call.
C4_AnswerPromotesPending ==
    [][( /\ last'.op \in SetOps
         /\ last'.Type = "answer"
         /\ last'.sdErr = "nil" )
       => ( /\ pc'.signalingState = Stable
            /\ pc'.pendingLocalDescription = Nil
            /\ pc'.pendingRemoteDescription = Nil
            /\ IF last'.op = "SetLocalDescription"
               THEN /\ pc'.currentLocalDescription =
                         NewDesc("answer", Effective(pc, "setLocal", "answer", last'.SDP))
                    /\ pc'.currentRemoteDescription = pc.pendingRemoteDescription
               ELSE /\ pc'.currentRemoteDescription = NewDesc("answer", last'.SDP)
                    /\ pc'.currentLocalDescription = pc.pendingLocalDescription )]_vars

\* A set-local answer has succeeded from have-local-pranswer and promoted the
\* pending remote offer.
C4_Witness ==
    /\ last.op = "SetLocalDescription"
    /\ last.Type = "answer"
    /\ last.from = HaveLocalPranswer
    /\ last.sdErr = "nil"
    /\ pc.currentRemoteDescription.Type = "offer"
    /\ pc.currentLocalDescription.Type = "answer"

\* C5: after a completed offer/answer exchange, on the offerer and on the
\* answerer, SignalingState() is stable, CurrentLocalDescription() and
\* CurrentRemoteDescription() return non-null descriptions and
\* PendingLocalDescription() and PendingRemoteDescription() return null.
C5_ExchangeCompleted ==
    ( /\ last.op \in SetOps
      /\ last.Type = "answer"
      /\ last.err = "nil" )
    => ( /\ ~crashed
         /\ SignalingState(pc) = Stable
         /\ CurrentRemoteDescription(pc) # Nil
         /\ PendingRemoteDescription(pc) = Nil
         /\ got.op = "CurrentLocalDescription" => got.ret # Nil
         /\ got.op = "PendingLocalDescription" => got.ret = Nil )

\* C6: in every reachable state in which signalingState is stable both
\* pending descriptions are null.
C6_StableHasNoPending ==
    pc.signalingState = Stable =>
        (pc.pendingLocalDescription = Nil /\ pc.pendingRemoteDescription = Nil)

\* C7: SetLocalDescription with a non-empty text that differs from lastOffer
\* (offer) or lastAnswer (answer, pranswer) returns InvalidModificationError
\* in every non-closed state and changes nothing.
C7_MismatchRejected ==
    [][( /\ last'.op = "SetLocalDescription"
         /\ last'.Type \in {"offer", "answer", "pranswer"}
         /\ ~pc.isClosed
         /\ last'.SDP # ""
         /\ last'.SDP # LastCreated(pc, last'.Type) )
       => (last'.err = "InvalidModificationError" /\ pc' = pc)]_vars

\* C8: whenever SetLocalDescription of type offer (answer) succeeds, the text
\* of the installed local description is the text the most recent successful
\* CreateOffer (CreateAnswer) returned.
C8_InstalledIsLastCreated ==
    ( /\ last.op = "SetLocalDescription"
      /\ last.sdErr = "nil" )
    => ( /\ last.Type = "offer" => pc.pendingLocalDescription.SDP = returned.offer
         /\ last.Type = "answer" => pc.currentLocalDescription.SDP = returned.answer )

\* An offer was installed after CreateOffer had returned its text.
C8_Witness ==
    /\ last.op = "SetLocalDescription"
    /\ last.Type = "offer"
    /\ last.sdErr = "nil"
    /\ last.SDP \in Texts
    /\ pc.pendingLocalDescription.SDP = returned.offer

\* C9: SetLocalDescription with an empty text behaves as if it had been called
\* with lastOffer (offer) or lastAnswer (answer, pranswer): same result, same
\* resulting state, and the installed description carries the stored text.
C9_EmptyMeansLastCreated ==
    \A t \in {"offer", "answer", "pranswer"}, gatherErr \in BOOLEAN :
        SetLocalDescription(pc, [Type |-> t, SDP |-> ""], agentIsTrickle,
                            [gatherErr |-> gatherErr])
        = SetLocalDescription(pc, [Type |-> t, SDP |-> LastCreated(pc, t)], agentIsTrickle,
                              [gatherErr |-> gatherErr])

\* An answer given with an empty text was installed with the stored text.
C9_Witness ==
    /\ last.op = "SetLocalDescription"
    /\ last.Type = "answer"
    /\ last.SDP = ""
    /\ last.sdErr = "nil"
    /\ pc.lastAnswer \in Texts
    /\ pc.currentLocalDescription.SDP = pc.lastAnswer

\* C10 as claimed: every one of two successive Close calls returns nil.
C10_EveryCloseReturnsNil ==
    last.op = "Close" => last.err = "nil"

\* C10: the second of two successive Close calls returns nil, stops no
\* transport or transceiver again and changes no state.
C10_SecondCloseIsNoOp ==
    [][(last.op = "Close" /\ last'.op = "Close" /\ calls' # calls)
       => (last'.err = "nil" /\ pc' = pc)]_vars

\* A second Close was made on a connection with a transceiver and an SCTP
\* transport, each stopped once.
C10_Witness ==
    /\ last.op = "Close"
    /\ last.from = Closed
    /\ last.err = "nil"
    /\ Len(pc.rtpTransceivers) > 0
    /\ \A i \in 1..Len(pc.rtpTransceivers) : pc.rtpTransceivers[i].stops = 1
    /\ pc.sctpTransport
    /\ pc.sctpStops = 1 /\ pc.iceStops = 1 /\ pc.dtlsStops = 1

\* The operations that the closed check is claimed to guard.
ClosedOps ==
    {"SetConfiguration", "CreateOffer", "CreateAnswer", "SetLocalDescription",
     "SetRemoteDescription", "AddICECandidate", "AddTrack", "AddTransceiverFromKind",
     "AddTransceiverFromTrack", "CreateDataChannel"}

\* C11: every call of one of the ten operations on a closed connection fails
\* with InvalidStateError{ConnectionClosed} and adds no transceiver, data
\* channel or description.
C11_ClosedCallsFail ==
    [][(pc.isClosed /\ calls' # calls /\ last'.op \in ClosedOps)
       => (/\ last'.err = ErrConnectionClosed
           /\ pc'.rtpTransceivers = pc.rtpTransceivers
           /\ pc'.dataChannels = pc.dataChannels
           /\ Slots(pc') = Slots(pc))]_vars

\* C12: a SetRemoteDescription call that follows a successful one fails with
\* the 'remoteDescription is already defined' error and leaves the signaling
\* state and the description slots unchanged.
C12_SecondSetRemoteFails ==
    [][(/\ last.op = "SetRemoteDescription" /\ last.err = "nil"
        /\ calls' # calls /\ last'.op = "SetRemoteDescription")
       => (/\ last'.err = "AlreadyDefined"
           /\ pc'.signalingState = pc.signalingState
           /\ Slots(pc') = Slots(pc))]_vars

\* The errors CreateAnswer returns before it compares the semantics.
EarlierAnswerErrors == {"TODO", ErrConnectionClosed, "BuildError", "NoMidValue"}

\* C13: with a remote description installed, a CreateAnswer call that gets as
\* far as the semantics check fails with TypeError{IncorrectSDPSemantics}
\* when the semantics is UnifiedPlan and the remote description is Plan-B and
\* when the semantics is PlanB and the remote description is not Plan-B, never
\* fails so under UnifiedPlanWithFallback, and a failing call leaves
\* lastAnswer unchanged.
C13_SemanticsEnforced ==
    [][(/\ calls' # calls /\ last'.op = "CreateAnswer"
        /\ RemoteDescription(pc) # Nil
        /\ last'.err \notin EarlierAnswerErrors)
       => (/\ (pc.configuration.SDPSemantics = "unified-plan"
               /\ descriptionIsPlanB(remoteMedia))
              => last'.err = ErrIncorrectSDPSemantics
           /\ (pc.configuration.SDPSemantics = "plan-b"
               /\ ~descriptionIsPlanB(remoteMedia))
              => last'.err = ErrIncorrectSDPSemantics
           /\ pc.configuration.SDPSemantics = "unified-plan-with-fallback"
              => last'.err # ErrIncorrectSDPSemantics
           /\ last'.err # "nil" => pc'.lastAnswer = pc.lastAnswer)]_vars

\* A CreateDataChannel call that gave both maxPacketLifeTime and maxRetransmits.
BothBoundsCall == calls' # calls /\ last'.op = "CreateDataChannel" /\ last'.both

\* The data-channel map and the requested counter are as before the call.
RegistryUnchanged ==
    /\ pc'.dataChannels = pc.dataChannels
    /\ pc'.dataChannelsRequested = pc.dataChannelsRequested

\* C14 (as stated): every CreateDataChannel call with both reliability bounds
\* returns TypeError and leaves the map and the requested counter unchanged.
C14_BothBoundsIsTypeError ==
    [][BothBoundsCall
       => (last'.err = ErrRetransmitsOrPacketLifeTime /\ RegistryUnchanged)]_vars

\* C14 (amended): a CreateDataChannel call with both reliability bounds never
\* changes the map or the requested counter; it returns TypeError unless an
\* earlier step fails: InvalidStateError on a closed connection,
\* OperationError when the id is left to the connection and none is free, or
\* the error of constructing the channel.
C14_BothBoundsRejected ==
    [][BothBoundsCall
       => (/\ RegistryUnchanged
           /\ last'.err # "nil"
           /\ pc.isClosed <=> last'.err = ErrConnectionClosed
           /\ last'.err = ErrMaxDataChannelID
              => (last'.auto /\ generateDataChannelID(pc, TRUE).err # "nil")
           /\ last'.err \in {ErrRetransmitsOrPacketLifeTime, ErrConnectionClosed,
                             ErrMaxDataChannelID, "NewDataChannelError"})]_vars

\* C14 witness: with a channel registered, a call with both bounds has
\* returned TypeError.
C14_Witness ==
    /\ last.op = "CreateDataChannel" /\ last.both
    /\ last.err = ErrRetransmitsOrPacketLifeTime
    /\ DOMAIN pc.dataChannels # {}
    /\ pc.dataChannelsRequested > 0

\* The bound M of the ids that are assigned automatically: the loop of
\* generateDataChannelID runs over the ids below max-1.
IdBound(p) == (IF p.sctpTransport THEN p.maxChannels ELSE sctpMaxChannels) - 1

\* The even ids below the bound that are not in the data-channel map.
FreeEvenIds(p) ==
    {i \in 0..(IdBound(p) - 1) : i % 2 = 0 /\ i \notin DOMAIN p.dataChannels}

\* A CreateDataChannel call without options.ID that got as far as assigning
\* the id and did not fail after that.
AutoIdCall ==
    /\ calls' # calls /\ last'.op = "CreateDataChannel" /\ last'.auto
    /\ last'.err \in {"nil", ErrMaxDataChannelID}

IsResponder(p) == RemoteDescription(p) # Nil /\ RemoteDescription(p).Type = "offer"

\* The connection has sent the offer of the session.
IsInitiator(p) ==
    \/ p.pendingLocalDescription.Type = "offer"
    \/ p.currentLocalDescription.Type = "offer"

\* C16: an id assigned automatically is odd on the connection that received
\* the offer and even on the connection that sent it.
C16_ParityBySide ==
    [][(/\ calls' # calls /\ last'.op = "CreateDataChannel" /\ last'.auto
        /\ last'.err = "nil")
       => (/\ IsResponder(pc) => last'.id % 2 = 1
           /\ IsInitiator(pc) => last'.id % 2 = 0)]_vars

\* C20: on a connection that is not Plan-B with n transceivers, CreateOffer
\* produces n+1 m-sections: the i-th belongs to the i-th transceiver and
\* carries mid i, the last is the m=application section with mid n, and the
\* BUNDLE group lists exactly these mids in this order, each the mid of an
\* m-section.
C20_OfferSections ==
    [][(/\ calls' # calls /\ last'.op = "CreateOffer" /\ last'.err = "nil"
        /\ pc.configuration.SDPSemantics # "plan-b")
       => LET d == returned'.offerParsed
              n == Len(pc.rtpTransceivers)
          IN /\ Len(d.media) = n + 1
             /\ \A i \in 1..n : /\ d.media[i].media = pc.rtpTransceivers[i].kind
                                /\ d.media[i].mid = Itoa(i - 1)
             /\ d.media[n + 1].media = "application"
             /\ d.media[n + 1].mid = Itoa(n)
             /\ d.group = [i \in 1..(n + 1) |-> Itoa(i - 1)]
             /\ \A k \in 1..Len(d.group) :
                   \E j \in 1..Len(d.media) : d.media[j].mid = d.group[k]]_vars

\* The place of a step in the text of the goroutine.
StepRank(step) == CHOOSE r \in DOMAIN LifecycleSteps : LifecycleSteps[r] = step

\* In trace tr, every call of step `later` comes after a call of step
\* `earlier` that returned without error.
OnlyAfterSuccess(tr, later, earlier) ==
    \A b \in DOMAIN tr :
        tr[b].step = later =>
            \E a \in 1..(b - 1) : tr[a].step = earlier /\ tr[a].ok

\* C18: inside every goroutine the steps happen in the order ICE start, DTLS
\* start, openSRTP, sender Send calls, SCTP start, data-channel opens: no step
\* runs before a step of an earlier place, ICE start, DTLS start, openSRTP and
\* SCTP start run at most once, DTLS start runs only after ICE start has
\* returned successfully, SCTP start only after DTLS start has returned
\* successfully, and a data channel is opened only after SCTP start has
\* returned successfully.
C18_StepsInOrder ==
    \A i \in DOMAIN tasks :
        LET tr == tasks[i].trace
        IN /\ \A a, b \in DOMAIN tr :
                a < b => /\ StepRank(tr[a].step) <= StepRank(tr[b].step)
                         /\ (tr[a].step = tr[b].step => tr[a].step \in {"send", "open"})
           /\ OnlyAfterSuccess(tr, "dtlsStart", "iceStart")
           /\ OnlyAfterSuccess(tr, "openSRTP", "dtlsStart")
           /\ OnlyAfterSuccess(tr, "sctpStart", "dtlsStart")
           /\ OnlyAfterSuccess(tr, "sctpStart", "openSRTP")
           /\ OnlyAfterSuccess(tr, "open", "sctpStart")
           /\ \A b \in DOMAIN tr :
                  tr[b].step = "send" => \E a \in 1..(b - 1) : tr[a].step = "openSRTP"

\* C18 witness: a goroutine has run ICE start, DTLS start, openSRTP, a Send, SCTP
\* start and the open of a data channel.
C18_Witness ==
    \E i \in DOMAIN tasks :
        \A step \in {"iceStart", "dtlsStart", "openSRTP", "send", "sctpStart", "open"} :
            \E a \in DOMAIN tasks[i].trace : tasks[i].trace[a].step = step

\* C19: when ICE start, DTLS start, a sender's Send or SCTP start fails, the
\* goroutine aborts: the failed call is the last step it executes.
C19_FailureAborts ==
    \A i \in DOMAIN tasks :
        LET tr == tasks[i].trace
        IN \A a \in DOMAIN tr :
               (tr[a].step \in {"iceStart", "dtlsStart", "send", "sctpStart"} /\ ~tr[a].ok)
                   => a = Len(tr)

\* Every goroutine has returned, and one of them after a successful SCTP start.
LifecycleCompleted ==
    /\ \A i \in DOMAIN tasks : tasks[i].at = "done"
    /\ \E i \in DOMAIN tasks :
           \E a \in DOMAIN tasks[i].trace :
               tasks[i].trace[a].step = "sctpStart" /\ tasks[i].trace[a].ok

\* C17: under every interleaving of CreateDataChannel with the goroutine, no
\* registered data channel has open() invoked on it twice, and once the
\* goroutine has completed after a successful SCTP start every registered data
\* channel has had open() invoked on it exactly once.
C17_OpenedExactlyOnce ==
    /\ \A id \in DOMAIN pc.dataChannels : pc.dataChannels[id].opens <= 1
    /\ LifecycleCompleted =>
           \A id \in DOMAIN pc.dataChannels : pc.dataChannels[id].opens = 1

\* The preferred local directions the claim gives for a remote direction.
PreferredFor(remoteDirection) ==
    IF remoteDirection \in {"sendrecv", "sendonly"} THEN <<"recvonly", "sendrecv">>
    ELSE IF remoteDirection = "recvonly" THEN <<"sendonly", "sendrecv">>
    ELSE << >>

\* Candidate i has the kind asked for and the k-th preferred direction.
PluckMatch(i, k) ==
    /\ plucked.candidates[i].kind = plucked.kind
    /\ plucked.candidates[i].Direction = PreferredFor(plucked.remoteDirection)[k]

\* Candidate i with preference k is the first match of the scan.
FirstMatch(i, k) ==
    /\ PluckMatch(i, k)
    /\ \A j \in 1..(i - 1) : ~PluckMatch(j, k)
    /\ \A h \in 1..(k - 1) : \A j \in DOMAIN plucked.candidates : ~PluckMatch(j, h)

\* The candidates without the i-th, in unchanged order.
WithoutCandidate(i) ==
    /\ Len(plucked.rest) = Len(plucked.candidates) - 1
    /\ \A j \in DOMAIN plucked.rest :
           plucked.rest[j] = plucked.candidates[IF j < i THEN j ELSE j + 1]

\* C21: satisfyTypeAndDirection returns the first transceiver of the kind,
\* scanning the preferred directions in order and within a direction the
\* candidates in insertion order, with the candidates minus exactly that
\* transceiver in unchanged order; when nothing matches it returns a fresh
\* inactive transceiver of the kind and the unchanged candidates; the registry
\* of the connection is never modified.
C21_PlucksFirstMatch ==
    plucked.called =>
        LET prefs == PreferredFor(plucked.remoteDirection)
            matched == \E i \in DOMAIN plucked.candidates, k \in DOMAIN prefs :
                           PluckMatch(i, k)
        IN /\ matched =>
                 \E i \in DOMAIN plucked.candidates, k \in DOMAIN prefs :
                     /\ FirstMatch(i, k)
                     /\ plucked.t = plucked.candidates[i]
                     /\ WithoutCandidate(i)
           /\ ~matched =>
                 /\ plucked.t.kind = plucked.kind
                 /\ plucked.t.Direction = "inactive"
                 /\ \A i \in DOMAIN plucked.candidates : plucked.t # plucked.candidates[i]
                 /\ plucked.rest = plucked.candidates
           /\ plucked.registry = plucked.candidates

\* C21 witness: a call whose match in the second preferred direction is not
\* the first candidate and has candidates of the kind on both sides.
C21_Witness ==
    /\ plucked.called
    /\ plucked.remoteDirection = "recvonly"
    /\ Len(plucked.candidates) = 3
    /\ \A i \in 1..3 : plucked.candidates[i].kind = plucked.kind
    /\ plucked.candidates[1].Direction = "recvonly"
    /\ plucked.t = plucked.candidates[2]
    /\ plucked.t.Direction = "sendrecv"
    /\ plucked.rest = <<plucked.candidates[1], plucked.candidates[3]>>

\* C22: a SetLocalDescription or SetRemoteDescription call that succeeds
\* dispatches the signaling-state handler exactly once, with the new state, and
\* a call that fails dispatches none.
C22_DispatchOncePerSuccess ==
    [][(calls' # calls /\ last'.op \in {"SetLocalDescription", "SetRemoteDescription"})
       => IF last'.err = "nil"
          THEN /\ pc'.signalingDispatches = pc.signalingDispatches + 1
               /\ pc'.lastSignalingEvent = pc'.signalingState
          ELSE pc'.signalingDispatches = pc.signalingDispatches]_vars

\* C23: while an application handler is executing, the task that dispatched it
\* does not hold pc.mu, neither for reading nor for writing.
C23_NoLockWhileHandlerRuns ==
    \A h \in DOMAIN threads :
        threads[h].running => ~Holds(threads[h].trigger)

\* C24: every application handler runs in a task distinct from the task that
\* triggered the event.
C24_HandlerInOwnTask ==
    \A h \in DOMAIN threads :
        threads[h].running => threads[h].trigger # h

\* The transports and collaborator objects of the connection.
Collaborators ==
    {"iceGatherer", "iceTransport", "dtlsTransport", "sctpTransport", "dataChannel"}

\* C25: no task holds pc.mu while it is inside a call into a transport or a
\* collaborator object.
C25_NoLockAcrossCalls ==
    \A i \in DOMAIN threads :
        threads[i].inside \in Collaborators => ~Holds(i)

\* The InvalidModificationError values of SetConfiguration.
ModificationErrors ==
    {"InvalidModificationError{ModifyingPeerIdentity}",
     "InvalidModificationError{ModifyingCertificates}",
     "InvalidModificationError{ModifyingBundlePolicy}",
     "InvalidModificationError{ModifyingRTCPMuxPolicy}",
     "InvalidModificationError{ModifyingICECandidatePoolSize}"}

\* Configuration c specifies a peer identity, certificate list, bundle policy
\* or RTCP-mux policy different from that of cur.
SpecifiesFrozenChange(c, cur) ==
    \/ c.PeerIdentity # "" /\ c.PeerIdentity # cur.PeerIdentity
    \/ /\ Len(c.Certificates) > 0
       /\ \/ Len(c.Certificates) # Len(cur.Certificates)
          \/ \E i \in 1..Len(c.Certificates) : c.Certificates[i] # cur.Certificates[i]
    \/ c.BundlePolicy # "unknown" /\ c.BundlePolicy # cur.BundlePolicy
    \/ c.RTCPMuxPolicy # "unknown" /\ c.RTCPMuxPolicy # cur.RTCPMuxPolicy

SpecifiesPoolSizeChange(c, cur) ==
    c.ICECandidatePoolSize # 0 /\ c.ICECandidatePoolSize # cur.ICECandidatePoolSize

\* The connection has a local description, pending or current.
HasLocalDescription(p) ==
    p.pendingLocalDescription # Nil \/ p.currentLocalDescription # Nil

RaceOver ==
    /\ Len(racing.inflight) = 2
    /\ \A i \in 1..2 : racing.inflight[i].done
    /\ ~pc.isClosed

\* Running call a and then call b from the state the calls started in ends
\* with the return values, the state and the slots of the connection.
SerialOutcome(a, b) ==
    LET r1 == Alone(racing.start, racing.inflight[a])
        r2 == Alone(r1.pc, racing.inflight[b])
    IN /\ racing.inflight[a].err = r1.err
       /\ racing.inflight[b].err = r2.err
       /\ pc.signalingState = r2.pc.signalingState
       /\ Slots(pc) = Slots(r2.pc)

\* C27: when two set-description calls run at the same time, both return
\* values, the final signalingState and the four slots are those of running
\* the two calls one after the other in some order.
C27_Serializable ==
    RaceOver => SerialOutcome(1, 2) \/ SerialOutcome(2, 1)

\* C29: once Close has set isClosed and signalingState, no later or
\* concurrently running operation changes signalingState to a value other
\* than closed.
C29_ClosedStays ==
    pc.isClosed => pc.signalingState = Closed

\* C28: a SetLocalDescription or SetRemoteDescription call that returns an
\* error leaves signalingState and the four slots as they were, dispatches no
\* signaling callback and starts no goroutine.
C28_FailedCallChangesNothing ==
    [][(/\ calls' # calls
        /\ last'.op \in {"SetLocalDescription", "SetRemoteDescription"}
        /\ last'.err # "nil")
       => (/\ pc'.signalingState = pc.signalingState
           /\ Slots(pc') = Slots(pc)
           /\ pc'.signalingDispatches = pc.signalingDispatches
           /\ pc'.lifecycleTasks = pc.lifecycleTasks
           /\ tasks' = tasks)]_vars

\* C30: over the lifetime of a connection at most one goroutine is started by
\* SetRemoteDescription and at most one SCTP transport is constructed.
C30_OneLifecycleTask ==
    /\ pc.lifecycleTasks <= 1
    /\ Len(tasks) <= 1
    /\ pc.sctpTransportsCreated <= 1

\* C34: a registration never replaces an entry of the data-channel registry.
\* Every registration stores a channel object made for it, so a channel that
\* was returned or delivered stays the entry under its id exactly when no
\* later successful CreateDataChannel and no later delivery uses an id the
\* registry already has.
Registers == calls' = calls + 1 /\ last'.err = "nil"
             /\ last'.op \in {"CreateDataChannel", "OnDataChannel"}

C34_RegistryKeepsChannels ==
    [][Registers => last'.id \notin DOMAIN pc.dataChannels]_vars

\* C35: a CreateDataChannel call that returns an error leaves the data-channel
\* map and dataChannelsRequested as they were.
C35_FailedCreateChangesNothing ==
    [][(calls' = calls + 1 /\ last'.op = "CreateDataChannel" /\ last'.err # "nil")
          => /\ pc'.dataChannels = pc.dataChannels
             /\ pc'.dataChannelsRequested = pc.dataChannelsRequested]_vars

\* C36: a SetConfiguration call that returns an error leaves the stored
\* configuration as it was.
C36_FailedSetConfigurationChangesNothing ==
    [][(calls' = calls + 1 /\ last'.op = "SetConfiguration" /\ last'.err # "nil"
        /\ ~crashed')
          => pc'.configuration = pc.configuration]_vars

\* C37: a call of PendingLocalDescription, CurrentLocalDescription or
\* LocalDescription that returns changes nothing of the connection, the parsed
\* candidate lists of the stored descriptions included.
C37_GettersReadOnly ==
    [][(got'.op # "none" /\ ~crashed') => pc' = pc]_vars

\* C38: no task asks for pc.mu, for reading or for writing, while it holds it.
C38_NoRequestWhileHolding ==
    \A i \in DOMAIN threads :
        At(i).op \in {"Lock", "RLock"} => ~Holds(i)

\* The handler of goroutine h has been called.
Started(h) == threads[h].running \/ At(h).op = "done"

\* The goroutines that onSignalingStateChange has created.
SignalingHandlers ==
    {h \in DOMAIN threads :
        threads[h].prog = "handler" /\ threads[h].handler = "signaling"}

\* C39: when a set-description call has returned before the next one is made,
\* the signaling handler of the first transition is called before the handler
\* of the second.
C39_HandlersInOrder ==
    \A i, j \in SignalingHandlers :
        threads[i].trigger \in threads[threads[j].trigger].prior
            => (Started(j) => Started(i))

\* The receiver starts of the latest openSRTP, in the order they were made.
ReceiverStarts == srtp.claims \o srtp.synthesized

\* The transceivers the registry had when openSRTP began.
ExistingTransceivers == 1..(Len(pc.rtpTransceivers) - Len(srtp.synthesized))

\* Transceiver i can take an SSRC of the kind: it is not stopped, has the kind,
\* receives, and has a receiver.
CanReceive(i, kind) ==
    /\ pc.rtpTransceivers[i].stops = 0
    /\ pc.rtpTransceivers[i].kind = kind
    /\ pc.rtpTransceivers[i].Direction \in {"recvonly", "sendrecv"}
    /\ pc.rtpTransceivers[i].Receiver

\* The kind of the m-section that announces the SSRC.
AnnouncedKind(x) ==
    LET at == {i \in DOMAIN remoteMedia :
                  \E k \in DOMAIN remoteMedia[i].ssrcs : remoteMedia[i].ssrcs[k].ssrc = x}
    IN remoteMedia[CHOOSE i \in at : \A j \in at : j <= i].media

\* C32: openSRTP gives each collected SSRC the first transceiver, among those
\* no earlier SSRC has claimed, that is not stopped, has the kind, has direction
\* recvonly or sendrecv and has a receiver; no receiver is started for two
\* SSRCs and no SSRC starts two receivers.
C32_FirstFreeTransceiver ==
    srtp.called =>
        /\ \A k \in DOMAIN srtp.claims :
               LET taken == {srtp.claims[h].t : h \in 1..(k - 1)}
                   free == {i \in ExistingTransceivers \ taken :
                               CanReceive(i, srtp.claims[k].kind)}
               IN /\ free # {}
                  /\ srtp.claims[k].t = CHOOSE i \in free : \A j \in free : i <= j
        /\ \A x \in srtp.collected :
               (\A k \in DOMAIN srtp.claims : srtp.claims[k].ssrc # x)
                   => \A i \in ExistingTransceivers :
                          CanReceive(i, AnnouncedKind(x))
                              => \E k \in DOMAIN srtp.claims : srtp.claims[k].t = i
        /\ \A k, h \in DOMAIN ReceiverStarts :
               k # h => /\ ReceiverStarts[k].t # ReceiverStarts[h].t
                        /\ ReceiverStarts[k].ssrc # ReceiverStarts[h].ssrc

\* The SSRCs announced by the a=ssrc lines of the audio and video sections.
AnnouncedSSRCs ==
    UNION {{remoteMedia[i].ssrcs[k].ssrc : k \in DOMAIN remoteMedia[i].ssrcs} :
              i \in {j \in DOMAIN remoteMedia : remoteMedia[j].media \in RTPCodecTypes}}

\* C33: with a Plan-B remote description and codecs for the kind, every
\* announced SSRC has exactly one receiver started for it, on an existing
\* transceiver or on a new sendrecv transceiver at the end of the registry.
C33_EverySSRCReceived ==
    (/\ srtp.called
     /\ descriptionIsPlanB(remoteMedia)
     /\ pc.configuration.SDPSemantics # "unified-plan")
        => /\ \A x \in AnnouncedSSRCs :
                  Cardinality({k \in DOMAIN ReceiverStarts :
                                  ReceiverStarts[k].ssrc = x}) = 1
           /\ \A k \in DOMAIN srtp.synthesized :
                  /\ srtp.synthesized[k].t \notin ExistingTransceivers
                  /\ pc.rtpTransceivers[srtp.synthesized[k].t].Direction = "sendrecv"

====
